---------------------------- MODULE Spec2Model ----------------------------
(***************************************************************************)
(* A model of the Smart-Money-Concepts analysis core of the gold-trader    *)
(* repository: the market-structure state machine, the confluence scoring  *)
(* of a TimeframeAnalysis, the signal generator, the Fair-Value-Gap        *)
(* detector and the liquidity-sweep detector.                              *)
(*                                                                         *)
(* Each component has its own specification (SpecStructure, ...) over the  *)
(* one tuple of variables; a component's specification leaves the other    *)
(* components' variables at their idle values.                             *)
(*                                                                         *)
(* Numbers.  Prices are integers in a fixed unit.  Python floats and       *)
(* Decimals are modelled by exact arithmetic: a rational is a pair         *)
(* <<numerator, denominator>> in lowest terms with a positive denominator. *)
(* Where Python itself refuses an operation (Decimal - float raises        *)
(* TypeError, x / 0.0 raises ZeroDivisionError, a missing attribute raises *)
(* AttributeError) the model records the exception as the call's outcome.  *)
(***************************************************************************)
EXTENDS Integers, Sequences, FiniteSets

VARIABLES
    \* ---- MarketStructure (structure_analyzer.py)
    swing_highs,        \* sequence of swing points [price, strength]
    swing_lows,         \* sequence of swing points [price, strength]
    structure_breaks,   \* sequence of [type, price, timestamp, confirmed, strength]
    current_state,      \* "RANGING" | "UPTREND" | "DOWNTREND"
    last_update,        \* timestamp of the last candle fed (0 = none yet)
    feed,               \* history of the candle feed: [high, low, close, asc, desc, raised]
    sb_call,            \* the last confirm_structure_break call: [called, break_type, price]
    \* ---- ConfluenceAnalysis (confluence_analyzer.py)
    analyses,           \* timeframe -> TimeframeAnalysis [factors, *_score]
    ca_overall_score,   \* ConfluenceAnalysis.overall_score (rational)
    ca_confidence,      \* ConfluenceAnalysis.confidence (rational)
    \* ---- SignalGenerator (signal_generator.py)
    settings,           \* the settings generate_signal reads (get_settings())
    generated,          \* the last generate_signal call: its arguments and result
    \* ---- FairValueGapDetector (fvg_detector.py)
    fvg_candles,        \* the candle list handed to detect_fvgs
    detected,           \* the detect_fvgs call: [called, outcome, fvgs, constructed, examined]
    \* ---- LiquidityAnalyzer (liquidity_analyzer.py)
    pools,              \* sequence of LiquidityPool [price, type, touches, last_touch,
                        \*   swept, sweep_time, sweep_price]
    swept_call,         \* the detect_liquidity_sweeps call: its arguments and result
    \* ---- SMCConfig (config/smc.py)
    smc_config,         \* the SMCConfig instance validate is called on
    smc_validated,      \* the validate call: [called, outcome]
    \* ---- SignalGenerator.validate_signal (signal_generator.py)
    candidate,          \* the TradingSignal handed to validate_signal, as far as it is read
    validation,         \* the validate_signal call: [called, outcome, result]
    \* ---- Candle (models/candle.py)
    ohlc,               \* the prices handed to Candle(...): [open, high, low, close]
    constructed,        \* the construction: [called, outcome, candle]
    \* ---- CircuitBreaker (core/error_recovery.py)
    cb_state,           \* CircuitBreakerState [state, failure_count, last_failure_time, success_count]
    cb_now,             \* time.time(), in seconds
    cb_inflight,        \* calls whose wrapped function has been invoked and not yet finished
    cb_calls,           \* calls of CircuitBreaker.call begun so far
    cb_last,            \* how the last call begun went on: none | invoked | rejected
    \* ---- ResourceManager (core/synchronization.py)
    rm_locks,           \* self._locks[resource_id]: list of ResourceLock [lock_type, acquired_at, owner]
    rm_now,             \* time.time(), in seconds
    rm_last,            \* the last call: [op, owner, lock_type, result]
    \* ---- TradeManager (trading/trade_manager.py)
    tm_trades,          \* trades open in the trade repository
    tm_locked,          \* trade ids whose resource trade_<id> is locked in trade_locks
    tm_last,            \* the last open_trade call: arguments, what it saw and its result
    \* ---- BoundedCache (core/memory_manager.py)
    bc_cache,           \* _cache with _timestamps, in OrderedDict order: [key, value, timestamp]
    bc_now,             \* time.time(), in seconds
    bc_last,            \* the last put or get: [op, key, result]
    bc_used,            \* history: the cached keys by their last get hit or put, least recent first
    \* ---- RetryHandler.execute (core/error_recovery.py)
    rh_pc,              \* where execute stands: idle | calling | sleeping | returned | raised
    rh_attempt,         \* the loop variable attempt
    rh_log,             \* what each invocation of func did, in order: [kind, value]
    rh_done,            \* what execute returned or raised: [kind, value]
    \* ---- AsyncLockManager (core/synchronization.py)
    al_locked,          \* self._lock.locked()
    al_waiters,         \* tasks waiting in self._lock.acquire(), first come first
    al_pc,              \* task -> idle | waiting | inside
    al_owner,           \* self._owner
    \* ---- SemaphoreManager (core/synchronization.py)
    sm_value,           \* permits left in self._semaphore
    sm_waiters,         \* tasks waiting in self._semaphore.acquire(), first come first
    sm_pc,              \* task -> idle | waiting | inside
    sm_count,           \* self._current_count
    \* ---- TradeManager._update_trade_price / _check_trade_exit (trade_manager.py)
    te_locks,           \* trade_locks._locks['trade_<id>']: list of ResourceLock
    te_now,             \* time.time(), in seconds
    te_pc,              \* caller of _update_trade_price -> idle | updating | evaluating | checked
    \* ---- FairValueGapDetector.get_active_fvgs (fvg_detector.py)
    af_gaps,            \* the gap list handed to get_active_fvgs: [id, type, top_price, bottom_price, strength, timestamp, filled]
    af_now,             \* datetime.utcnow(), in minutes
    af_excluded,        \* ids of the gaps some get_active_fvgs call has excluded as filled
    af_active,          \* the list the last get_active_fvgs call returned
    \* ---- MarketDataProcessor candle windows (market_data_processor.py)
    mw_windows,         \* timeframe -> RollingWindow.data, the stored candles named by their timestamps
    mw_current,         \* timeframe -> current candle [timestamp, open, high, low, close], timestamp 0 for None
    mw_last_tick,       \* timestamp of the last tick processed
    \* ---- OrderBlockDetector._determine_block_type (analysis/order_block_detector.py)
    bt_candles,         \* the candle sequence, each candle by its bias: bullish | bearish | doji
    bt_index,           \* index of the candidate candle in candles, from 0
    bt_result,          \* what _determine_block_type returned, none before the call
    \* ---- Trade (models/trade.py)
    tl_trade,           \* one Trade: its fields, 0 for a price or time that is None
    tl_call             \* the last method call on the trade: [op, raised]

vars_structure ==
    <<swing_highs, swing_lows, structure_breaks, current_state, last_update, feed,
      sb_call>>

vars_confluence == <<analyses, ca_overall_score, ca_confidence>>

vars_signal == <<settings, generated>>

vars_fvg == <<fvg_candles, detected>>

vars_liquidity == <<pools, swept_call>>

vars_smc == <<smc_config, smc_validated>>

vars_validation == <<candidate, validation>>

vars_candle == <<ohlc, constructed>>

vars_breaker == <<cb_state, cb_now, cb_inflight, cb_calls, cb_last>>

vars_locks == <<rm_locks, rm_now, rm_last>>

vars_trades == <<tm_trades, tm_locked, tm_last>>

vars_cache == <<bc_cache, bc_now, bc_last, bc_used>>

vars_retry == <<rh_pc, rh_attempt, rh_log, rh_done>>

vars_alock == <<al_locked, al_waiters, al_pc, al_owner>>

vars_semaphore == <<sm_value, sm_waiters, sm_pc, sm_count>>

vars_exit == <<te_locks, te_now, te_pc>>

vars_active == <<af_gaps, af_now, af_excluded, af_active>>

vars_window == <<mw_windows, mw_current, mw_last_tick>>

vars_blocktype == <<bt_candles, bt_index, bt_result>>

vars_lifecycle == <<tl_trade, tl_call>>

vars ==
    <<vars_structure, vars_confluence, vars_signal, vars_fvg, vars_liquidity,
      vars_smc, vars_validation, vars_candle, vars_breaker, vars_locks,
      vars_trades, vars_cache, vars_retry, vars_alock, vars_semaphore,
      vars_exit, vars_active, vars_window, vars_blocktype, vars_lifecycle>>

\* what the actions of one component leave alone
others_structure ==
    <<vars_confluence, vars_signal, vars_fvg, vars_liquidity, vars_smc,
      vars_validation, vars_candle, vars_breaker, vars_locks, vars_trades,
      vars_cache, vars_retry, vars_alock, vars_semaphore, vars_exit,
      vars_active, vars_window, vars_blocktype, vars_lifecycle>>
others_confluence ==
    <<vars_structure, vars_signal, vars_fvg, vars_liquidity, vars_smc,
      vars_validation, vars_candle, vars_breaker, vars_locks, vars_trades,
      vars_cache, vars_retry, vars_alock, vars_semaphore, vars_exit,
      vars_active, vars_window, vars_blocktype, vars_lifecycle>>
others_signal ==
    <<vars_structure, vars_confluence, vars_fvg, vars_liquidity, vars_smc,
      vars_validation, vars_candle, vars_breaker, vars_locks, vars_trades,
      vars_cache, vars_retry, vars_alock, vars_semaphore, vars_exit,
      vars_active, vars_window, vars_blocktype, vars_lifecycle>>
others_fvg ==
    <<vars_structure, vars_confluence, vars_signal, vars_liquidity, vars_smc,
      vars_validation, vars_candle, vars_breaker, vars_locks, vars_trades,
      vars_cache, vars_retry, vars_alock, vars_semaphore, vars_exit,
      vars_active, vars_window, vars_blocktype, vars_lifecycle>>
others_liquidity ==
    <<vars_structure, vars_confluence, vars_signal, vars_fvg, vars_smc,
      vars_validation, vars_candle, vars_breaker, vars_locks, vars_trades,
      vars_cache, vars_retry, vars_alock, vars_semaphore, vars_exit,
      vars_active, vars_window, vars_blocktype, vars_lifecycle>>
others_smc ==
    <<vars_structure, vars_confluence, vars_signal, vars_fvg, vars_liquidity,
      vars_validation, vars_candle, vars_breaker, vars_locks, vars_trades,
      vars_cache, vars_retry, vars_alock, vars_semaphore, vars_exit,
      vars_active, vars_window, vars_blocktype, vars_lifecycle>>
others_validation ==
    <<vars_structure, vars_confluence, vars_signal, vars_fvg, vars_liquidity,
      vars_smc, vars_candle, vars_breaker, vars_locks, vars_trades,
      vars_cache, vars_retry, vars_alock, vars_semaphore, vars_exit,
      vars_active, vars_window, vars_blocktype, vars_lifecycle>>
others_candle ==
    <<vars_structure, vars_confluence, vars_signal, vars_fvg, vars_liquidity,
      vars_smc, vars_validation, vars_breaker, vars_locks, vars_trades,
      vars_cache, vars_retry, vars_alock, vars_semaphore, vars_exit,
      vars_active, vars_window, vars_blocktype, vars_lifecycle>>
others_breaker ==
    <<vars_structure, vars_confluence, vars_signal, vars_fvg, vars_liquidity,
      vars_smc, vars_validation, vars_candle, vars_locks, vars_trades,
      vars_cache, vars_retry, vars_alock, vars_semaphore, vars_exit,
      vars_active, vars_window, vars_blocktype, vars_lifecycle>>
others_locks ==
    <<vars_structure, vars_confluence, vars_signal, vars_fvg, vars_liquidity,
      vars_smc, vars_validation, vars_candle, vars_breaker, vars_trades,
      vars_cache, vars_retry, vars_alock, vars_semaphore, vars_exit,
      vars_active, vars_window, vars_blocktype, vars_lifecycle>>
others_trades ==
    <<vars_structure, vars_confluence, vars_signal, vars_fvg, vars_liquidity,
      vars_smc, vars_validation, vars_candle, vars_breaker, vars_locks,
      vars_cache, vars_retry, vars_alock, vars_semaphore, vars_exit,
      vars_active, vars_window, vars_blocktype, vars_lifecycle>>
others_cache ==
    <<vars_structure, vars_confluence, vars_signal, vars_fvg, vars_liquidity,
      vars_smc, vars_validation, vars_candle, vars_breaker, vars_locks,
      vars_trades, vars_retry, vars_alock, vars_semaphore, vars_exit,
      vars_active, vars_window, vars_blocktype, vars_lifecycle>>
others_retry ==
    <<vars_structure, vars_confluence, vars_signal, vars_fvg, vars_liquidity,
      vars_smc, vars_validation, vars_candle, vars_breaker, vars_locks,
      vars_trades, vars_cache, vars_alock, vars_semaphore, vars_exit,
      vars_active, vars_window, vars_blocktype, vars_lifecycle>>
others_alock ==
    <<vars_structure, vars_confluence, vars_signal, vars_fvg, vars_liquidity,
      vars_smc, vars_validation, vars_candle, vars_breaker, vars_locks,
      vars_trades, vars_cache, vars_retry, vars_semaphore, vars_exit,
      vars_active, vars_window, vars_blocktype, vars_lifecycle>>
others_semaphore ==
    <<vars_structure, vars_confluence, vars_signal, vars_fvg, vars_liquidity,
      vars_smc, vars_validation, vars_candle, vars_breaker, vars_locks,
      vars_trades, vars_cache, vars_retry, vars_alock, vars_exit,
      vars_active, vars_window, vars_blocktype, vars_lifecycle>>
others_exit ==
    <<vars_structure, vars_confluence, vars_signal, vars_fvg, vars_liquidity,
      vars_smc, vars_validation, vars_candle, vars_breaker, vars_locks,
      vars_trades, vars_cache, vars_retry, vars_alock, vars_semaphore,
      vars_active, vars_window, vars_blocktype, vars_lifecycle>>
others_active ==
    <<vars_structure, vars_confluence, vars_signal, vars_fvg, vars_liquidity,
      vars_smc, vars_validation, vars_candle, vars_breaker, vars_locks,
      vars_trades, vars_cache, vars_retry, vars_alock, vars_semaphore,
      vars_exit, vars_window, vars_blocktype, vars_lifecycle>>
others_window ==
    <<vars_structure, vars_confluence, vars_signal, vars_fvg, vars_liquidity,
      vars_smc, vars_validation, vars_candle, vars_breaker, vars_locks,
      vars_trades, vars_cache, vars_retry, vars_alock, vars_semaphore,
      vars_exit, vars_active, vars_blocktype, vars_lifecycle>>
others_blocktype ==
    <<vars_structure, vars_confluence, vars_signal, vars_fvg, vars_liquidity,
      vars_smc, vars_validation, vars_candle, vars_breaker, vars_locks,
      vars_trades, vars_cache, vars_retry, vars_alock, vars_semaphore,
      vars_exit, vars_active, vars_window, vars_lifecycle>>
others_lifecycle ==
    <<vars_structure, vars_confluence, vars_signal, vars_fvg, vars_liquidity,
      vars_smc, vars_validation, vars_candle, vars_breaker, vars_locks,
      vars_trades, vars_cache, vars_retry, vars_alock, vars_semaphore,
      vars_exit, vars_active, vars_window, vars_blocktype>>

-----------------------------------------------------------------------------
(***************************************************************************)
(* Helpers                                                                 *)
(***************************************************************************)
Max2(a, b) == IF a >= b THEN a ELSE b
Min2(a, b) == IF a <= b THEN a ELSE b
Abs(a) == IF a >= 0 THEN a ELSE -a

\* seq[-n:] of Python
LastN(seq, n) ==
    IF Len(seq) <= n THEN seq ELSE SubSeq(seq, Len(seq) - n + 1, Len(seq))

SeqMax(seq) == CHOOSE m \in {seq[i] : i \in DOMAIN seq} :
                   \A j \in DOMAIN seq : seq[j] <= m
SeqMin(seq) == CHOOSE m \in {seq[i] : i \in DOMAIN seq} :
                   \A j \in DOMAIN seq : seq[j] >= m

\* Exact rationals <<n, d>>, d > 0, in lowest terms
RECURSIVE GCD(_, _)
GCD(a, b) == IF b = 0 THEN a ELSE GCD(b, a % b)
Rat(n, d) == LET g == GCD(Abs(n), d) IN <<n \div g, d \div g>>
RZero == <<0, 1>>
RAdd(x, y) == Rat(x[1] * y[2] + y[1] * x[2], x[2] * y[2])
RMul(x, y) == Rat(x[1] * y[1], x[2] * y[2])
RDiv(x, y) == Rat(x[1] * y[2], x[2] * y[1])      \* y > 0
RLe(x, y) == x[1] * y[2] <= y[1] * x[2]
RLt(x, y) == x[1] * y[2] < y[1] * x[2]
RMin(x, y) == IF RLe(x, y) THEN x ELSE y
RMax(x, y) == IF RLe(x, y) THEN y ELSE x

PricesOf(points) == [i \in DOMAIN points |-> points[i].price]

SeqsUpTo(S, n) == UNION {[1..k -> S] : k \in 0..n}


-----------------------------------------------------------------------------
(***************************************************************************)
(* MarketStructure: src/src/analysis/structure_analyzer.py                 *)
(***************************************************************************)
MaxCandles == 7          \* candles fed to one MarketStructure
MaxPrice == 8            \* price levels 1..MaxPrice

min_swing_points == 3    \* MarketStructure.min_swing_points
trend_period == 20       \* MarketStructure.trend_period
config_trend_period == 20 \* settings.smc.structure.trend_period (default)

Prices == 1..MaxPrice

\* A well-formed candle (Candle.__post_init__: low <= close <= high); volume 0
\* stands for "no volume" (None or 0), 1 for a positive volume.
StructCandles ==
    {c \in [high : Prices, low : Prices, close : Prices, volume : {0, 1}] :
        c.low <= c.close /\ c.close <= c.high}

\* _is_swing_high: false while there is no swing low at all
IsSwingHighUnguarded(lows, c) ==
    IF Len(lows) = 0 THEN TRUE
    ELSE c.high > SeqMax(PricesOf(LastN(lows, trend_period)))
IsSwingHigh(lows, c) ==
    IF Len(lows) = 0 THEN FALSE
    ELSE c.high > SeqMax(PricesOf(LastN(lows, trend_period)))

\* _is_swing_low: false while there is no swing high at all
IsSwingLow(highs, c) ==
    IF Len(highs) = 0 THEN FALSE
    ELSE c.low < SeqMin(PricesOf(LastN(highs, trend_period)))

\* _calculate_swing_strength.  The swing points this class appends carry no
\* volume and no range_size, so _get_average_volume and _get_average_range give
\* 0.0: a positive candle volume divides by 0.0 (ZeroDivisionError) and a
\* positive Decimal range is divided by the float 0.0 (TypeError).  Otherwise
\* the strength is the wick term alone, (1 - 0) * 0.3, here in tenths.
CalculateSwingStrength(c) ==
    IF c.volume > 0 THEN [raised |-> "ZeroDivisionError", value |-> 0]
    ELSE IF c.high - c.low > 0 THEN [raised |-> "TypeError", value |-> 0]
    ELSE [raised |-> "none", value |-> 3]

\* _update_swing_points keeping the oldest max_swing_points entries
UpdateSwingPointsKeepOldest(highs, lows, c) ==
    LET isHigh == IsSwingHigh(lows, c)
        isLow  == ~isHigh /\ IsSwingLow(highs, c)
        st     == CalculateSwingStrength(c)
        h1     == IF isHigh
                  THEN Append(highs, [price |-> c.high, strength |-> st.value])
                  ELSE highs
        l1     == IF isLow
                  THEN Append(lows, [price |-> c.low, strength |-> st.value])
                  ELSE lows
    IN  IF (isHigh \/ isLow) /\ st.raised # "none"
        THEN [raised |-> st.raised, highs |-> highs, lows |-> lows]
        ELSE [raised |-> "none",
              highs  |-> SubSeq(h1, 1, Min2(Len(h1), 2 * config_trend_period)),
              lows   |-> SubSeq(l1, 1, Min2(Len(l1), 2 * config_trend_period))]

\* _update_swing_points: a swing high, else a swing low, then the pruning
UpdateSwingPoints(highs, lows, c) ==
    LET isHigh == IsSwingHigh(lows, c)
        isLow  == ~isHigh /\ IsSwingLow(highs, c)
        st     == CalculateSwingStrength(c)
        h1     == IF isHigh
                  THEN Append(highs, [price |-> c.high, strength |-> st.value])
                  ELSE highs
        l1     == IF isLow
                  THEN Append(lows, [price |-> c.low, strength |-> st.value])
                  ELSE lows
    IN  IF (isHigh \/ isLow) /\ st.raised # "none"
        THEN [raised |-> st.raised, highs |-> highs, lows |-> lows]
        ELSE [raised |-> "none",
              highs  |-> LastN(h1, 2 * config_trend_period),
              lows   |-> LastN(l1, 2 * config_trend_period)]

\* _update_trend_analysis: the state after the swing update
UpdateTrendAnalysisHighsOnly(highs, lows) ==
    IF Len(highs) < min_swing_points \/ Len(lows) < min_swing_points
    THEN "RANGING"
    ELSE IF highs[Len(highs)].price > highs[Len(highs) - 1].price THEN "UPTREND"
    ELSE IF highs[Len(highs)].price < highs[Len(highs) - 1].price THEN "DOWNTREND"
    ELSE "RANGING"
UpdateTrendAnalysis(highs, lows) ==
    IF Len(highs) < min_swing_points \/ Len(lows) < min_swing_points
    THEN "RANGING"
    ELSE LET rh == LastN(highs, trend_period)
             rl == LastN(lows, trend_period)
             last_high == rh[Len(rh)].price
             prev_high == rh[Len(rh) - 1].price
             last_low  == rl[Len(rl)].price
             prev_low  == rl[Len(rl) - 1].price
         IN  IF last_high > prev_high /\ last_low > prev_low THEN "UPTREND"
             ELSE IF last_high < prev_high /\ last_low < prev_low THEN "DOWNTREND"
             ELSE "RANGING"

NewBreak(type, point, ts) ==
    [type |-> type, price |-> point.price, timestamp |-> ts,
     confirmed |-> FALSE, strength |-> point.strength]

\* _check_structure_breaks keeping only the break it has just found
CheckStructureBreaksLatestOnly(breaks, state, highs, lows, c, ts) ==
    IF Len(highs) < 2 \/ Len(lows) < 2 THEN breaks
    ELSE LET last_high == highs[Len(highs)]
             last_low  == lows[Len(lows)]
         IN  IF state = "UPTREND"
             THEN IF c.close > last_low.price
                  THEN <<NewBreak("BOS", last_low, ts)>> ELSE breaks
             ELSE IF state = "DOWNTREND"
             THEN IF c.close < last_high.price
                  THEN <<NewBreak("BOS", last_high, ts)>> ELSE breaks
             ELSE IF c.close > last_high.price
                  THEN <<NewBreak("CHoCH", last_high, ts)>>
             ELSE IF c.close < last_low.price
                  THEN <<NewBreak("CHoCH", last_low, ts)>>
             ELSE breaks

\* _check_structure_breaks with _check_bos_bullish, _check_bos_bearish, _check_choch
CheckStructureBreaks(breaks, state, highs, lows, c, ts) ==
    IF Len(highs) < 2 \/ Len(lows) < 2 THEN breaks
    ELSE LET last_high == highs[Len(highs)]
             last_low  == lows[Len(lows)]
         IN  IF state = "UPTREND"
             THEN IF c.close > last_low.price
                  THEN Append(breaks, NewBreak("BOS", last_low, ts)) ELSE breaks
             ELSE IF state = "DOWNTREND"
             THEN IF c.close < last_high.price
                  THEN Append(breaks, NewBreak("BOS", last_high, ts)) ELSE breaks
             ELSE IF c.close > last_high.price
                  THEN Append(breaks, NewBreak("CHoCH", last_high, ts))
             ELSE IF c.close < last_low.price
                  THEN Append(breaks, NewBreak("CHoCH", last_low, ts))
             ELSE breaks

\* update_with_candle(candle); the candle's timestamp is the next one.  feed
\* remembers whether every candle so far had a higher high and a higher low
\* than the one before (asc), or a lower high and a lower low (desc).
UpdateWithCandle(c) ==
    /\ last_update < MaxCandles
    /\ UNCHANGED <<sb_call, others_structure>>
    /\ last_update' = last_update + 1
    /\ LET sp == UpdateSwingPoints(swing_highs, swing_lows, c)
           st == UpdateTrendAnalysis(sp.highs, sp.lows)
       IN  /\ feed' = [high |-> c.high, low |-> c.low, close |-> c.close,
                       asc  |-> feed.asc /\ (last_update = 0
                                   \/ (c.high > feed.high /\ c.low > feed.low)),
                       desc |-> feed.desc /\ (last_update = 0
                                   \/ (c.high < feed.high /\ c.low < feed.low)),
                       raised |-> sp.raised]
           /\ IF sp.raised # "none"
              THEN UNCHANGED <<swing_highs, swing_lows, current_state, structure_breaks>>
              ELSE /\ swing_highs' = sp.highs
                   /\ swing_lows' = sp.lows
                   /\ current_state' = st
                   /\ structure_breaks' =
                          CheckStructureBreaks(structure_breaks, st, sp.highs,
                                               sp.lows, c, last_update + 1)

\* C1: from a freshly constructed MarketStructure, a feed whose highs and lows
\* are both strictly ascending brings current_state to UPTREND, and one whose
\* highs and lows are both strictly descending brings it to DOWNTREND; stated
\* for the end of a feed of MaxCandles candles.
C1_MonotoneFeedYieldsTrend ==
    (last_update = MaxCandles /\ feed.raised = "none") =>
        /\ (feed.asc => current_state = "UPTREND")
        /\ (feed.desc => current_state = "DOWNTREND")

\* A MarketStructure whose swing lists already hold swing points: the lists
\* are plain attributes, and _update_trend_analysis and
\* _check_structure_breaks read nothing else.  The points are the ones
\* _update_swing_points builds (no volume, strength 0.3), recorded at earlier
\* timestamps; SeededUpdates further candles are then fed.
SeededUpdates == 1       \* update_with_candle calls on a seeded MarketStructure

SeedPrices == {2, 4, 6}
SeedSwingPoints == [price : SeedPrices, strength : {3}]
SeededLists == SeqsUpTo(SeedSwingPoints, min_swing_points)

\* Swing lists at and one below max_swing_points = 2 * trend_period entries,
\* the prices alternating between two levels
SeedRun(n, first, second) ==
    [i \in 1..n |-> [price |-> IF i % 2 = 1 THEN first ELSE second, strength |-> 3]]
FullSeedLists ==
    {SeedRun(n, pair[1], pair[2]) :
        n \in {2 * config_trend_period - 1, 2 * config_trend_period},
        pair \in {<<2, 4>>, <<4, 6>>}}

\* new holds the entries of old, then the swing point appended at price if
\* one was, less the oldest ones dropped to fit max_swing_points
KeptMostRecent(old, new, was_appended, price) ==
    LET appended == IF was_appended THEN 1 ELSE 0
        dropped == Len(old) + appended - Len(new)
    IN  /\ dropped >= 0
        /\ dropped > 0 => Len(new) = 2 * config_trend_period
        /\ \A i \in 1..(Len(new) - appended) : new[i] = old[i + dropped]
        /\ was_appended => (new # <<>> /\ new[Len(new)].price = price)

\* C37: after every update_with_candle, swing_highs and swing_lows each hold
\* at most 2 * trend_period entries, the retained entries being the most
\* recently appended ones in their original order.
C37_SwingListsPruned ==
    [][last_update' = last_update + 1 =>
          /\ Len(swing_highs') <= 2 * config_trend_period
          /\ Len(swing_lows') <= 2 * config_trend_period
          /\ LET done == feed'.raised = "none"
                  isHigh == IsSwingHigh(swing_lows, feed')
                  isLow == ~isHigh /\ IsSwingLow(swing_highs, feed')
             IN  /\ KeptMostRecent(swing_highs, swing_highs', done /\ isHigh,
                                    feed'.high)
                 /\ KeptMostRecent(swing_lows, swing_lows', done /\ isLow,
                                    feed'.low)]_vars

\* C37 witness: a full swing_highs list that began 4, 6, ... has lost its
\* oldest entry to the swing high of a candle at 5
C37_Witness ==
    /\ Len(swing_highs) = 2 * config_trend_period
    /\ swing_highs[1].price = 6
    /\ swing_highs[Len(swing_highs)].price = 5
    /\ feed.high = 5 /\ feed.raised = "none"

\* C26: from a fresh MarketStructure every sequence of update_with_candle
\* calls leaves swing_highs and swing_lows empty, current_state RANGING and
\* structure_breaks empty.
C26_FreshStructureStaysEmpty ==
    /\ swing_highs = <<>>
    /\ swing_lows = <<>>
    /\ current_state = "RANGING"
    /\ structure_breaks = <<>>

\* C26 witness: MaxCandles updates of a fresh MarketStructure, ascending
\* throughout, none of them raising, the last candle taller than flat
C26_Witness ==
    /\ last_update = MaxCandles
    /\ feed.asc /\ feed.raised = "none"
    /\ feed.high > feed.low
    /\ swing_highs = <<>> /\ swing_lows = <<>>

\* the candles fed to a seeded MarketStructure: around the seeded prices,
\* flat or one level high
SeededCandles == {c \in StructCandles : c.high <= 7 /\ c.high - c.low <= 1}

Updated == feed.high # 0 /\ feed.raised = "none"

Last(seq) == seq[Len(seq)]
Prev(seq) == seq[Len(seq) - 1]

\* an update appended a Break of Structure
BosRecorded ==
    /\ Len(structure_breaks') = Len(structure_breaks) + 1
    /\ Last(structure_breaks').type = "BOS"

C16_TrendFromLastTwoSwings ==
    /\ feed.high = 0 => current_state = "RANGING"
    /\ (Updated /\ Len(swing_highs) >= min_swing_points
          /\ Len(swing_lows) >= min_swing_points) =>
         LET higher == Last(swing_highs).price > Prev(swing_highs).price
                          /\ Last(swing_lows).price > Prev(swing_lows).price
             lower  == Last(swing_highs).price < Prev(swing_highs).price
                          /\ Last(swing_lows).price < Prev(swing_lows).price
         IN  /\ current_state = "UPTREND" <=> higher
             /\ current_state = "DOWNTREND" <=> lower
             /\ current_state = "RANGING" <=> (~higher /\ ~lower)

\* C16 witness: an update that left three swing points a side, the last high
\* and the last low above the previous ones, and the state UPTREND
C16_Witness ==
    /\ Updated
    /\ Len(swing_highs) = 3 /\ Len(swing_lows) = 3
    /\ Last(swing_highs).price = 6 /\ Prev(swing_highs).price = 4
    /\ Last(swing_lows).price = 4 /\ Prev(swing_lows).price = 2
    /\ current_state = "UPTREND"

-----------------------------------------------------------------------------
(***************************************************************************)
(* MarketStructure.confirm_structure_break on a structure that already     *)
(* holds swing points and may hold a logged break.  A price level stands   *)
(* for 5 pips, so the tolerance Decimal("0.0010") is two levels.           *)
(***************************************************************************)
price_tolerance == 2

BreakTypes == {"BOS", "CHoCH"}
ConfirmPrices == {3, 6}     \* the price handed to confirm_structure_break

NoConfirmCall == [called |-> FALSE, break_type |-> "none", price |-> 0]

\* the swing lists of a structure that can log breaks: two points a side
BreakSeedLists ==
    {l \in SeededLists : Len(l) = 2 /\ \A i \in 1..2 : l[i].price \in {2, 6}}

\* the break log so far: empty, or one unconfirmed break logged at time 1
SeededBreakLists ==
    {<<>>} \cup {<<NewBreak(type, point, 1)>> :
                     type \in BreakTypes, point \in SeedSwingPoints}

\* the test of confirm_structure_break with the price left out
MatchesTypeOnly(structure_break, break_type, price) ==
    structure_break.type = break_type

\* structure_break.type == break_type and abs(structure_break.price - price)
\* < Decimal("0.0010")
Matches(structure_break, break_type, price) ==
    /\ structure_break.type = break_type
    /\ Abs(structure_break.price - price) < price_tolerance

\* the loop of confirm_structure_break from position i on: the first matching
\* break is confirmed, then the loop ends
RECURSIVE ConfirmFirst(_, _, _, _)
ConfirmFirst(breaks, i, break_type, price) ==
    IF i > Len(breaks) THEN breaks
    ELSE IF Matches(breaks[i], break_type, price)
    THEN [breaks EXCEPT ![i].confirmed = TRUE]
    ELSE ConfirmFirst(breaks, i + 1, break_type, price)

\* confirm_structure_break(break_type, price)
ConfirmStructureBreak(break_type, price) ==
    /\ structure_breaks' = ConfirmFirst(structure_breaks, 1, break_type, price)
    /\ sb_call' = [called |-> TRUE, break_type |-> break_type, price |-> price]
    /\ UNCHANGED <<swing_highs, swing_lows, current_state, last_update, feed>>
    /\ UNCHANGED others_structure

\* C33: structure_breaks is append-only: over update_with_candle and
\* confirm_structure_break calls no break is removed or reordered, its type,
\* price, timestamp and strength never change, and its confirmed flag never
\* goes back from True to False.
C33_BreaksAppendOnly ==
    [][/\ Len(structure_breaks') >= Len(structure_breaks)
       /\ \A i \in 1..Len(structure_breaks) :
              /\ structure_breaks'[i].type = structure_breaks[i].type
              /\ structure_breaks'[i].price = structure_breaks[i].price
              /\ structure_breaks'[i].timestamp = structure_breaks[i].timestamp
              /\ structure_breaks'[i].strength = structure_breaks[i].strength
              /\ structure_breaks[i].confirmed => structure_breaks'[i].confirmed]_vars

\* C33 witness: a confirmed break logged at time 1 is still first in the log
\* after an update has appended another break behind it
C33_Witness ==
    /\ Len(structure_breaks) = 2
    /\ structure_breaks[1].confirmed /\ structure_breaks[1].timestamp = 1
    /\ structure_breaks[2].timestamp = last_update
    /\ ~structure_breaks[2].confirmed

\* a step of confirm_structure_break (update_with_candle moves last_update)
ConfirmStep == last_update' = last_update /\ sb_call'.called

\* C36: confirm_structure_break(break_type, price) sets confirmed on a logged
\* break only if the break's type equals break_type and its price is within
\* the tolerance of price; it changes no other break and no other state; when
\* no logged break matches, nothing changes.
C36_ConfirmOnlyMatching ==
    [][ConfirmStep =>
          LET changed == {i \in 1..Len(structure_breaks) :
                             structure_breaks'[i] # structure_breaks[i]}
          IN  /\ Len(structure_breaks') = Len(structure_breaks)
              /\ \A i \in changed :
                     /\ structure_breaks[i].type = sb_call'.break_type
                     /\ Abs(structure_breaks[i].price - sb_call'.price) < price_tolerance
                     /\ structure_breaks'[i] =
                            [structure_breaks[i] EXCEPT !.confirmed = TRUE]
              /\ Cardinality(changed) <= 1
              /\ UNCHANGED <<swing_highs, swing_lows, current_state, feed>>]_vars

\* C36 witness: confirm_structure_break("CHoCH", 6) confirmed the CHoCH
\* logged at price 6 and left the unconfirmed CHoCH at price 2 before it alone
C36_Witness ==
    /\ sb_call = [called |-> TRUE, break_type |-> "CHoCH", price |-> 6]
    /\ Len(structure_breaks) = 2
    /\ structure_breaks[1].type = "CHoCH" /\ structure_breaks[1].price = 2
    /\ ~structure_breaks[1].confirmed
    /\ structure_breaks[2].type = "CHoCH" /\ structure_breaks[2].price = 6
    /\ structure_breaks[2].confirmed

-----------------------------------------------------------------------------
(***************************************************************************)
(* TimeframeAnalysis and ConfluenceAnalysis:                               *)
(* src/src/analysis/confluence_analyzer.py                                 *)
(***************************************************************************)
MaxFactors == 2          \* add_factor calls on one ConfluenceAnalysis

h4_weight == 40          \* settings.smc.h4_weight (default)
h1_weight == 35          \* settings.smc.h1_weight (default)
m15_weight == 25         \* settings.smc.m15_weight (default)

Timeframes == {"H4", "H1", "M15"}

\* factor kinds: the four the aggregation knows, and one the analyzer also adds
FactorTypes == {"FVG", "ORDER_BLOCK", "LIQUIDITY", "STRUCTURE", "LIQUIDITY_SWEEP"}
FactorScores == {<<0, 1>>, <<1, 2>>, <<1, 1>>}
FactorWeights == {<<0, 1>>, <<1, 4>>, <<1, 1>>}

\* ConfluenceFactor.__init__ with _validate_factor: 0 <= score <= 1, weight >= 0
ConfluenceFactors ==
    {f \in [type : FactorTypes, score : FactorScores, weight : FactorWeights] :
        /\ RLe(RZero, f.score) /\ RLe(f.score, <<1, 1>>)
        /\ RLe(RZero, f.weight)}

\* TimeframeAnalysis.__init__
NewTimeframeAnalysis ==
    [factors |-> <<>>, fvg_score |-> RZero, ob_score |-> RZero,
     liquidity_score |-> RZero, structure_score |-> RZero, overall_score |-> RZero]

RECURSIVE SumWeights(_)
SumWeights(fs) ==
    IF fs = <<>> THEN RZero ELSE RAdd(fs[1].weight, SumWeights(Tail(fs)))

\* the loop of _recalculate_scores for one category: start + sum of score * weight
RECURSIVE Accumulate(_, _, _)
Accumulate(start, fs, type) ==
    IF fs = <<>> THEN start
    ELSE Accumulate(IF fs[1].type = type
                    THEN RAdd(start, RMul(fs[1].score, fs[1].weight))
                    ELSE start,
                    Tail(fs), type)

\* _recalculate_scores: the sums are added onto the scores the analysis already
\* holds, then normalised by the total weight of all factors
RecalculateScores(a) ==
    IF a.factors = <<>> THEN [NewTimeframeAnalysis EXCEPT !.factors = a.factors]
    ELSE LET total_weight == SumWeights(a.factors)
             Normalize(x) == IF RLt(RZero, total_weight)
                             THEN RMul(RDiv(x, total_weight), <<100, 1>>)
                             ELSE x
             fvg == Normalize(Accumulate(a.fvg_score, a.factors, "FVG"))
             ob  == Normalize(Accumulate(a.ob_score, a.factors, "ORDER_BLOCK"))
             liq == Normalize(Accumulate(a.liquidity_score, a.factors, "LIQUIDITY"))
             str == Normalize(Accumulate(a.structure_score, a.factors, "STRUCTURE"))
         IN  [factors |-> a.factors, fvg_score |-> fvg, ob_score |-> ob,
              liquidity_score |-> liq, structure_score |-> str,
              overall_score |->
                  RAdd(RAdd(RMul(fvg, <<1, 4>>), RMul(ob, <<3, 10>>)),
                       RAdd(RMul(liq, <<1, 4>>), RMul(str, <<1, 5>>)))]

FactorCount == Len(analyses["H4"].factors) + Len(analyses["H1"].factors)
                   + Len(analyses["M15"].factors)

\* TimeframeAnalysis.add_factor on one of the three analyses
AddFactor(tf, f) ==
    /\ FactorCount < MaxFactors
    /\ analyses' = [analyses EXCEPT ![tf] =
           RecalculateScores([analyses[tf] EXCEPT !.factors = Append(@, f)])]
    /\ UNCHANGED <<ca_overall_score, ca_confidence>>
    /\ UNCHANGED others_confluence

\* ConfluenceAnalysis._calculate_overall_confluence
CalculateOverallConfluence ==
    LET overall ==
            RAdd(RAdd(RMul(analyses["H4"].overall_score, <<h4_weight, 100>>),
                      RMul(analyses["H1"].overall_score, <<h1_weight, 100>>)),
                 RMul(analyses["M15"].overall_score, <<m15_weight, 100>>))
    IN  /\ ca_overall_score' = overall
        /\ ca_confidence' = RMin(<<1, 1>>, RDiv(overall, <<100, 1>>))
        /\ UNCHANGED analyses
        /\ UNCHANGED others_confluence

InRange(x, lo, hi) == RLe(<<lo, 1>>, x) /\ RLe(x, <<hi, 1>>)

ScoresOf(a) ==
    <<a.fvg_score, a.ob_score, a.liquidity_score, a.structure_score, a.overall_score>>

\* C2: after any sequence of add_factor calls every score of every
\* TimeframeAnalysis lies in [0,100], the cross-timeframe overall_score lies in
\* [0,100] and confidence in [0,1]; with zero factors every score is 0.
C2_ScoresWithinBounds ==
    /\ \A tf \in Timeframes :
          /\ \A i \in 1..5 : InRange(ScoresOf(analyses[tf])[i], 0, 100)
          /\ analyses[tf].factors = <<>> =>
                 \A i \in 1..5 : ScoresOf(analyses[tf])[i] = RZero
    /\ InRange(ca_overall_score, 0, 100)
    /\ InRange(ca_confidence, 0, 1)

\* C3: after every add_factor the scores of a TimeframeAnalysis are the ones
\* computed from scratch from its factors list alone, and recalculating again
\* without adding a factor changes no score.
C3_ScoresComputedFromFactorsAlone ==
    \A tf \in Timeframes :
        /\ ScoresOf(analyses[tf]) =
               ScoresOf(RecalculateScores(
                   [NewTimeframeAnalysis EXCEPT !.factors = analyses[tf].factors]))
        /\ RecalculateScores(analyses[tf]) = analyses[tf]

\* the factors of one category, in the order they were added
CategoryFactors(fs, type) == SelectSeq(fs, LAMBDA f : f.type = type)

\* the four category sub-scores with the factor type each one collects
CategoryScores(a) ==
    {<<"FVG", a.fvg_score>>, <<"ORDER_BLOCK", a.ob_score>>,
     <<"LIQUIDITY", a.liquidity_score>>, <<"STRUCTURE", a.structure_score>>}

\* C30: each category sub-score of a TimeframeAnalysis equals 100 times the
\* sum of score * weight over that category's factors divided by the sum of
\* their weights (where that sum is positive), is 0 when the category has no
\* factor, and so does not depend on the factors of other categories.
C30_CategoryScoreIsCategoryAverage ==
    \A tf \in Timeframes : \A cs \in CategoryScores(analyses[tf]) :
        LET cf == CategoryFactors(analyses[tf].factors, cs[1])
        IN  /\ cf = <<>> => cs[2] = RZero
            /\ (cf # <<>> /\ RLt(RZero, SumWeights(cf))) =>
                   cs[2] = RMul(RDiv(Accumulate(RZero, cf, cs[1]), SumWeights(cf)),
                                <<100, 1>>)

\* the factor kinds _analyze_h4, _analyze_h1 and _analyze_m15 construct
AnalyzerAdds ==
    [H4  |-> {"FVG", "ORDER_BLOCK"},
     H1  |-> {"FVG", "ORDER_BLOCK", "LIQUIDITY_SWEEP"},
     M15 |-> {"FVG", "ORDER_BLOCK", "PRICE_REJECTION", "BULLISH_CONFIRMATION",
              "BEARISH_CONFIRMATION"}]

\* C32: every factor the analyzer adds to a TimeframeAnalysis has a kind that
\* is counted in exactly one of the four category sub-scores; none is ignored
\* by the aggregation.
C32_EveryAddedFactorCounted ==
    \A tf \in Timeframes : \A i \in 1..Len(analyses[tf].factors) :
        LET f == analyses[tf].factors[i]
        IN  f.type \in AnalyzerAdds[tf] =>
               Cardinality({cs \in CategoryScores(analyses[tf]) :
                               CategoryFactors(<<f>>, cs[1]) = <<f>>}) = 1

-----------------------------------------------------------------------------
(***************************************************************************)
(* SignalGenerator: src/src/trading/signal_generator.py                    *)
(*                                                                         *)
(* Prices are integers in units of 0.00001, so that every level the        *)
(* generator computes is an integer: sl_buffer_pips / 10000 is             *)
(* 10 * sl_buffer_pips units.  Percentages and ratios are in tenths.       *)
(***************************************************************************)
MaxSignalFactors == 2    \* descriptions in analysis.get_confluence_factors()

\* TradingConfig and SMCConfig fields generate_signal reads, within the bounds
\* their pydantic Fields accept (get_settings() does not call validate()).
\* The defaults are sl 5, tp1 0.5, tp2 1.0, min_risk_reward 2.0, threshold 80.
SettingsDomain ==
    [sl_buffer_pips : {1, 5}, tp1_percentage : {5, 9}, tp2_percentage : {5, 6, 10, 20},
     min_risk_reward : {15, 20}, confluence_threshold : {50, 80}]

\* what get_confluence_factors() can return: factor descriptions; the tests
\* hand in the bare tags, the analyzer writes "FVG at <price>"
Descriptions ==
    {"FVG", "ORDER_BLOCK", "BULLISH_CONFIRMATION", "BEARISH_CONFIRMATION",
     "LIQUIDITY_SWEEP_BUY", "LIQUIDITY_SWEEP_SELL", "FVG at 2000.50000"}

\* the analysis handed to generate_signal, as far as it is read
Analyses ==
    [overall_score : {0, 49, 50, 79, 80, 100},
     factors : SeqsUpTo(Descriptions, MaxSignalFactors)]

\* current_price: 2000.50 and 1950.00, as a Decimal or as a float
SignalPrices == {200050000, 195000000}
NumberKinds == {"Decimal", "float"}

NoSignal == [direction |-> "NONE"]

\* ConfluenceAnalysis.meets_threshold
MeetsThresholdOffByOne(analysis, threshold) ==
    analysis.overall_score + 1 >= threshold
MeetsThreshold(analysis, threshold) ==
    analysis.overall_score >= threshold

CountIn(fs, S) == Cardinality({i \in DOMAIN fs : fs[i] \in S})

\* _determine_signal_direction: "FVG" is in both lists
DetermineSignalDirection(factors) ==
    LET bullish_count ==
            CountIn(factors, {"FVG", "BULLISH_CONFIRMATION", "LIQUIDITY_SWEEP_BUY"})
        bearish_count ==
            CountIn(factors, {"FVG", "BEARISH_CONFIRMATION", "LIQUIDITY_SWEEP_SELL"})
    IN  IF bullish_count > bearish_count THEN "BUY"
        ELSE IF bearish_count > bullish_count THEN "SELL"
        ELSE "HOLD"

\* _calculate_price_levels, for a price the float buffer can be subtracted from
CalculatePriceLevels(entry_price, direction, cfg) ==
    LET sl_buffer == 10 * cfg.sl_buffer_pips
    IN  IF direction = "BUY"
        THEN LET stop_loss == entry_price - sl_buffer
             IN  [stop_loss |-> stop_loss,
                  tp1 |-> entry_price
                          + ((entry_price - stop_loss) * cfg.tp1_percentage) \div 10,
                  tp2 |-> entry_price
                          + ((entry_price - stop_loss) * cfg.tp2_percentage) \div 10]
        ELSE LET stop_loss == entry_price + sl_buffer
             IN  [stop_loss |-> stop_loss,
                  tp1 |-> entry_price
                          - ((stop_loss - entry_price) * cfg.tp1_percentage) \div 10,
                  tp2 |-> entry_price
                          - ((stop_loss - entry_price) * cfg.tp2_percentage) \div 10]

\* _calculate_risk_reward with the quotient taken the other way round
CalculateRiskRewardInverted(entry_price, stop_loss, tp2, direction) ==
    LET risk   == IF direction = "BUY" THEN entry_price - stop_loss
                  ELSE stop_loss - entry_price
        reward == IF direction = "BUY" THEN tp2 - entry_price
                  ELSE entry_price - tp2
    IN  IF risk > 0 THEN Rat(risk, reward) ELSE RZero

\* _calculate_risk_reward, as the rational reward / risk (0 when risk <= 0)
CalculateRiskReward(entry_price, stop_loss, tp2, direction) ==
    LET risk   == IF direction = "BUY" THEN entry_price - stop_loss
                  ELSE stop_loss - entry_price
        reward == IF direction = "BUY" THEN tp2 - entry_price
                  ELSE entry_price - tp2
    IN  IF risk > 0 THEN Rat(reward, risk) ELSE RZero

\* TradingSignal(...): the record of the fields handed to it; any of the
\* directions BUY, SELL, HOLD is accepted
TradingSignal(direction, entry_price, stop_loss, tp1, tp2, rr) ==
    [direction |-> direction, entry_price |-> entry_price, stop_loss |-> stop_loss,
     take_profit_1 |-> tp1, take_profit_2 |-> tp2, risk_reward_ratio |-> rr]

\* generate_signal(analysis, current_price): None below the threshold; a
\* Decimal price stops in _calculate_price_levels, where the float
\* sl_buffer_pips / 10000 is subtracted from or added to it (TypeError);
\* otherwise the signal is built and returned for whatever direction was found.
GenerateSignalResult(analysis, current_price, kind, cfg) ==
    IF ~MeetsThreshold(analysis, cfg.confluence_threshold)
    THEN [outcome |-> "None", signal |-> NoSignal]
    ELSE IF kind = "Decimal"
    THEN [outcome |-> "TypeError", signal |-> NoSignal]
    ELSE LET direction == DetermineSignalDirection(analysis.factors)
             entry_price == current_price
             lv == CalculatePriceLevels(entry_price, direction, cfg)
             rr == CalculateRiskReward(entry_price, lv.stop_loss, lv.tp2, direction)
         IN  [outcome |-> "signal",
              signal |-> TradingSignal(direction, entry_price, lv.stop_loss,
                                       lv.tp1, lv.tp2, rr)]

\* the settings get_settings() yields when nothing overrides the defaults
DefaultSettings ==
    [sl_buffer_pips |-> 5, tp1_percentage |-> 5, tp2_percentage |-> 10,
     min_risk_reward |-> 20, confluence_threshold |-> 80]

\* generate_signal calls about to be made, their arguments drawn from the
\* bounded sets above
SignalCalls ==
    [called : {FALSE}, analysis : Analyses, current_price : SignalPrices,
     kind : NumberKinds, outcome : {"pending"}, signal : {NoSignal}]

NoSignalCall ==
    [called |-> FALSE, analysis |-> [overall_score |-> 0, factors |-> <<>>],
     current_price |-> 200050000, kind |-> "Decimal",
     outcome |-> "pending", signal |-> NoSignal]

\* await generate_signal(analysis, current_price)
GenerateSignal ==
    LET r == GenerateSignalResult(generated.analysis, generated.current_price,
                                  generated.kind, settings)
    IN  /\ ~generated.called
        /\ generated' = [generated EXCEPT !.called = TRUE, !.outcome = r.outcome,
                                          !.signal = r.signal]
        /\ UNCHANGED settings
        /\ UNCHANGED others_signal

Returned == generated.called /\ generated.outcome = "signal"

TiedCounts(factors) == DetermineSignalDirection(factors) = "HOLD"

C6_NoneBelowThreshold ==
    (generated.called
       /\ generated.analysis.overall_score < settings.confluence_threshold)
      => (generated.outcome = "None" /\ generated.signal = NoSignal)

\* What x.validate() does when the class of x defines no validate of its own
\* (SessionConfig in trading.py; FVGConfig, OrderBlockConfig, LiquidityConfig
\* and StructureConfig in smc.py): the name resolves to the settings base
\* class's classmethod validate(cls, value), so the call without a value
\* raises TypeError, which the surrounding `except ValueError` lets through.
InheritedValidate == "TypeError"

\* the checks TradingConfig.validate collects errors from, for the fields
\* modelled (the others at their defaults, which pass): TRUE when
\* min_risk_reward < 1.5 or tp1 + tp2 # 1.5
TradingConfigErrors(cfg) ==
    cfg.min_risk_reward < 15 \/ cfg.tp1_percentage + cfg.tp2_percentage # 15

\* TradingConfig.validate: the checks, then session.validate() for the four
\* sessions, then ValueError if anything was collected, else True
TradingConfigValidate(cfg) ==
    IF InheritedValidate # "returned" THEN InheritedValidate
    ELSE IF TradingConfigErrors(cfg) THEN "ValueError"
    ELSE "True"

C6_Witness ==
    /\ generated.called
    /\ generated.analysis.overall_score = 79
    /\ settings.confluence_threshold = 80
    /\ generated.kind = "float"
    /\ generated.analysis.factors = <<"BULLISH_CONFIRMATION">>
    /\ generated.outcome = "None"

-----------------------------------------------------------------------------
(***************************************************************************)
(* FairValueGap and FairValueGapDetector: src/src/analysis/fvg_detector.py *)
(*                                                                         *)
(* Prices are integers in pips (0.0001), so size * 10000 is the difference *)
(* of two prices.  A candle's timestamp is its position in the list.       *)
(***************************************************************************)
MaxFvgCandles == 3       \* length of the list handed to detect_fvgs

min_size_pips == 5       \* settings.smc.fvg.min_size_pips (default)
max_size_pips == 100     \* settings.smc.fvg.max_size_pips (default)
min_strength == <<3, 10>>        \* settings.smc.fvg.min_strength (default 0.3)
require_volume_spike == FALSE    \* settings.smc.fvg.require_volume_spike (default)

\* price levels, spaced so that gaps below min_size_pips, between the two
\* limits and above max_size_pips all occur
FvgPrices == {1, 4, 5, 103}

\* Candle, as __post_init__ accepts it: low <= open, close <= high.  The open,
\* which only enters the body percentage, is taken at either end of the range.
FvgCandles ==
    {c \in [open : FvgPrices, high : FvgPrices, low : FvgPrices, close : FvgPrices] :
        /\ c.low <= c.open /\ c.open <= c.high
        /\ c.low <= c.close /\ c.close <= c.high
        /\ c.open \in {c.low, c.high}}

\* Candle.body_percentage
BodyPercentage(c) ==
    IF c.high - c.low = 0 THEN RZero
    ELSE Rat(Abs(c.close - c.open) * 100, c.high - c.low)

\* FairValueGap.__init__: self.size
GapSizeSum(top_price, bottom_price) == top_price + bottom_price
GapSize(top_price, bottom_price) == Abs(top_price - bottom_price)

NoGap == [type |-> "NONE"]

\* FairValueGap.__init__ with _validate_gap: the new object, or ValueError
FairValueGap(gap_type, top_price, bottom_price, start_ts, end_ts) ==
    LET size == GapSize(top_price, bottom_price)
    IN  IF top_price <= bottom_price \/ size <= 0
        THEN [raised |-> "ValueError", gap |-> NoGap]
        ELSE [raised |-> "none",
              gap |-> [type |-> gap_type, top_price |-> top_price,
                       bottom_price |-> bottom_price, size |-> size,
                       start |-> start_ts, timestamp |-> end_ts,
                       strength |-> RZero, filled |-> FALSE, touches |-> 0]]

\* add_middle_candle: whether the pattern check raises ValueError
AddMiddleCandleRaises(gap, candle) ==
    IF gap.type = "BULLISH" THEN candle.close >= gap.bottom_price
    ELSE candle.close <= gap.top_price

\* calculate_strength (volume_strength stays 1.0 unless require_volume_spike)
CalculateStrength(gap, middle) ==
    LET size_pips == gap.size
        size_strength ==
            IF min_size_pips <= size_pips /\ size_pips <= max_size_pips THEN <<1, 1>>
            ELSE IF size_pips < min_size_pips THEN <<1, 5>>
            ELSE <<1, 2>>
        volume_strength == <<1, 1>>
        wick_ratio == RDiv(BodyPercentage(middle), <<100, 1>>)
        wick_strength == RMax(<<3, 10>>, RAdd(<<1, 1>>, RMul(<<-1, 1>>, wick_ratio)))
        strength == RAdd(RAdd(RMul(size_strength, <<2, 5>>),
                              RMul(volume_strength, <<3, 10>>)),
                         RMul(wick_strength, <<3, 10>>))
    IN  RMin(<<1, 1>>, RMax(RZero, strength))

\* FairValueGap.is_valid
IsValid(gap, threshold) == RLe(threshold, gap.strength)

\* the two patterns _analyze_pattern looks for in three consecutive candles
IsBullishChain(first, second, third) ==
    second.low > first.high /\ third.low > second.high
IsBearishChain(first, second, third) ==
    second.high < first.low /\ third.high < second.low

\* the tail of both branches of _analyze_pattern: construct the gap, add the
\* middle candle, calculate the strength.  made lists the gaps whose
\* construction completed, also when a later step raises.
CompleteGap(gap_type, top_price, bottom_price, second, start_ts, end_ts) ==
    LET new == FairValueGap(gap_type, top_price, bottom_price, start_ts, end_ts)
    IN  IF new.raised # "none"
        THEN [outcome |-> "ValueError", gap |-> NoGap, made |-> <<>>]
        ELSE IF AddMiddleCandleRaises(new.gap, second)
        THEN [outcome |-> "ValueError", gap |-> NoGap, made |-> <<new.gap>>]
        ELSE LET fvg == [new.gap EXCEPT !.strength = CalculateStrength(new.gap, second)]
             IN  [outcome |-> "gap", gap |-> fvg, made |-> <<new.gap>>]

\* _analyze_pattern on the window that starts at position i
AnalyzePattern(cs, i) ==
    LET first == cs[i]
        second == cs[i + 1]
        third == cs[i + 2]
        none == [outcome |-> "None", gap |-> NoGap, made |-> <<>>]
    IN  IF IsBullishChain(first, second, third)
        THEN LET gap_top == Min2(first.high, second.high)
                 gap_bottom == Max2(second.low, third.low)
             IN  IF gap_bottom > gap_top THEN none
                 ELSE CompleteGap("BULLISH", gap_bottom, gap_top, second, i, i + 2)
        ELSE IF IsBearishChain(first, second, third)
        THEN LET gap_top == Max2(first.low, second.low)
                 gap_bottom == Min2(second.high, third.high)
             IN  IF gap_bottom >= gap_top THEN none
                 ELSE CompleteGap("BEARISH", gap_top, gap_bottom, second, i, i + 2)
        ELSE none

\* the loop of detect_fvgs from window i on; an exception raised by
\* _analyze_pattern ends the call
RECURSIVE ScanPatterns(_, _, _)
ScanPatterns(cs, i, acc) ==
    IF i > Len(cs) - 2 THEN [acc EXCEPT !.outcome = "returned"]
    ELSE LET r == AnalyzePattern(cs, i)
         IN  IF r.outcome = "ValueError"
             THEN [acc EXCEPT !.outcome = "ValueError", !.fvgs = <<>>,
                              !.constructed = @ \o r.made, !.examined = i]
             ELSE ScanPatterns(cs, i + 1,
                     [acc EXCEPT !.fvgs = IF r.outcome = "gap"
                                              /\ IsValid(r.gap, min_strength)
                                           THEN Append(@, r.gap) ELSE @,
                                 !.constructed = @ \o r.made,
                                 !.examined = i])

NoDetection ==
    [called |-> FALSE, outcome |-> "pending", fvgs |-> <<>>,
     constructed |-> <<>>, examined |-> 0]

\* detect_fvgs(candles)
DetectFvgsResult(cs) ==
    IF Len(cs) < 3 THEN [NoDetection EXCEPT !.called = TRUE, !.outcome = "returned"]
    ELSE ScanPatterns(cs, 1, [NoDetection EXCEPT !.called = TRUE])

\* detector.detect_fvgs(fvg_candles)
DetectFvgs ==
    /\ ~detected.called
    /\ detected' = DetectFvgsResult(fvg_candles)
    /\ UNCHANGED fvg_candles
    /\ UNCHANGED others_fvg

WindowsOf(cs) == IF Len(cs) < 3 THEN {} ELSE 1..(Len(cs) - 2)

GapsOf(seq) == {seq[k] : k \in DOMAIN seq}

Reported(gap_type, i) ==
    \E g \in GapsOf(detected.fvgs) : g.type = gap_type /\ g.timestamp = i + 2

\* the strength the gap between first.high and third.low (bullish) or between
\* third.high and first.low (bearish) has with the middle candle second
StrengthReaches(top_price, bottom_price, second) ==
    RLe(min_strength,
        CalculateStrength([size |-> top_price - bottom_price], second))

\* C8: detect_fvgs reports a BULLISH gap for a window iff c1.low > c0.high
\* and c2.low > c1.high (and the strength reaches min_strength), and a
\* BEARISH gap iff c1.high < c0.low and c2.high < c1.low (likewise).
C8_GapReportedIffChain ==
    detected.called =>
        \A i \in WindowsOf(fvg_candles) :
            LET first == fvg_candles[i]
                second == fvg_candles[i + 1]
                third == fvg_candles[i + 2]
            IN  /\ Reported("BULLISH", i) <=>
                       (IsBullishChain(first, second, third)
                          /\ StrengthReaches(third.low, first.high, second))
                /\ Reported("BEARISH", i) <=>
                       (IsBearishChain(first, second, third)
                          /\ StrengthReaches(first.low, third.high, second))

\* C9: detect_fvgs never raises on a list of well-formed candles: it returns
\* the empty list for fewer than 3 candles, and otherwise examines every
\* window, skipping the ones that are no valid gap.
C9_DetectNeverRaises ==
    detected.called =>
        /\ detected.outcome = "returned"
        /\ Len(fvg_candles) < 3 => detected.fvgs = <<>>
        /\ Len(fvg_candles) >= 3 => detected.examined = Len(fvg_candles) - 2

-----------------------------------------------------------------------------
(***************************************************************************)
(* LiquidityPool, LiquiditySweep and LiquidityAnalyzer:                    *)
(* src/src/analysis/liquidity_analyzer.py                                  *)
(*                                                                         *)
(* Prices are integers in price units; _analyze_sweep_pattern compares the *)
(* price distance itself with sweep_extension_pips.                        *)
(***************************************************************************)
MaxPools == 2            \* length of the pool list handed to detect_liquidity_sweeps
MaxTouches == 1          \* add_touch calls on one pool

sweep_extension_pips == 5        \* settings.smc.liquidity.sweep_extension_pips (default)

PoolPrices == {2000, 2002}
PoolTypes == {"HIGH", "LOW", "SIDE"}     \* _determine_pool_type
CurrentPrices == {1994, 1996, 2000, 2004, 2006}
SweepPrices == {1994, 2006}              \* mark_swept(sweep_time, sweep_price)
PoolTimes == {1, 2}                      \* timestamps handed to add_touch, mark_swept

\* LiquidityPool.__init__: a pool is created untouched and unswept (0 for None)
LiquidityPool(price, pool_type) ==
    [price |-> price, type |-> pool_type, touches |-> 0, last_touch |-> 0,
     swept |-> FALSE, sweep_time |-> 0, sweep_price |-> 0]

LiquidityPools == {LiquidityPool(p, t) : p \in PoolPrices, t \in PoolTypes}

NoSweep == [type |-> "NONE"]

\* LiquiditySweep.__init__ with _validate_sweep: non-positive prices raise
\* ValueError; then self.pool_price.timestamp is read, and pool_price is the
\* number handed in, which has no such attribute
LiquiditySweep(sweep_type, pool_price, sweep_price) ==
    IF pool_price <= 0 \/ sweep_price <= 0
    THEN [raised |-> "ValueError", sweep |-> NoSweep]
    ELSE [raised |-> "AttributeError", sweep |-> NoSweep]

\* _analyze_sweep_pattern(pool, candles, current_price)
AnalyzeSweepPattern(pool, current_price) ==
    LET extension_beyond_pool ==
            \/ pool.type = "HIGH" /\ current_price > pool.price
            \/ pool.type = "LOW" /\ current_price < pool.price
        sweep_type == IF pool.type = "HIGH" THEN "BUY_SIDE" ELSE "SELL_SIDE"
        sweep_price == current_price
    IN  IF ~extension_beyond_pool THEN [raised |-> "none", sweep |-> NoSweep]
        ELSE IF Abs(sweep_price - pool.price) < sweep_extension_pips
        THEN [raised |-> "none", sweep |-> NoSweep]
        ELSE LiquiditySweep(sweep_type, pool.price, sweep_price)

\* the loop of detect_liquidity_sweeps from pool i on; an exception raised
\* while a pool is analysed ends the call
RECURSIVE ScanPools(_, _, _, _)
ScanPools(ps, i, current_price, sweeps) ==
    IF i > Len(ps) THEN [outcome |-> "returned", sweeps |-> sweeps]
    ELSE IF ps[i].swept THEN ScanPools(ps, i + 1, current_price, sweeps)
    ELSE LET r == AnalyzeSweepPattern(ps[i], current_price)
         IN  IF r.raised # "none" THEN [outcome |-> r.raised, sweeps |-> <<>>]
             ELSE ScanPools(ps, i + 1, current_price,
                            IF r.sweep # NoSweep THEN Append(sweeps, r.sweep)
                            ELSE sweeps)

\* detect_liquidity_sweeps calls about to be made
SweepCalls ==
    [called : {FALSE}, pools : {<<>>}, current_price : CurrentPrices,
     outcome : {"pending"}, sweeps : {<<>>}]

NoSweepCall ==
    [called |-> FALSE, pools |-> <<>>, current_price |-> 2000,
     outcome |-> "pending", sweeps |-> <<>>]

\* pool.add_touch(timestamp) on the i-th pool
AddTouch(i, timestamp) ==
    /\ i \in DOMAIN pools
    /\ pools[i].touches < MaxTouches
    /\ pools' = [pools EXCEPT ![i].touches = @ + 1, ![i].last_touch = timestamp]
    /\ UNCHANGED swept_call
    /\ UNCHANGED others_liquidity

\* pool.mark_swept(sweep_time, sweep_price) on the i-th pool
MarkSwept(i, sweep_time, sweep_price) ==
    /\ i \in DOMAIN pools
    /\ pools' = [pools EXCEPT ![i].swept = TRUE, ![i].sweep_time = sweep_time,
                              ![i].sweep_price = sweep_price]
    /\ UNCHANGED swept_call
    /\ UNCHANGED others_liquidity

\* what detect_liquidity_sweeps reads of a pool
PoolAsRead(pool) == [price |-> pool.price, type |-> pool.type, swept |-> pool.swept]

\* analyzer.detect_liquidity_sweeps(pools, candles, current_price)
DetectLiquiditySweeps ==
    LET r == ScanPools(pools, 1, swept_call.current_price, <<>>)
    IN  /\ ~swept_call.called
        /\ swept_call' = [swept_call EXCEPT !.called = TRUE,
                                            !.pools = [i \in DOMAIN pools |->
                                                          PoolAsRead(pools[i])],
                                            !.outcome = r.outcome, !.sweeps = r.sweeps]
        /\ UNCHANGED pools
        /\ UNCHANGED others_liquidity

\* the pools of the call that the price has swept through, by pool type
SweptThrough(pool_type) ==
    {i \in DOMAIN swept_call.pools :
        LET pool == swept_call.pools[i]
            distance == IF pool_type = "HIGH"
                        THEN swept_call.current_price - pool.price
                        ELSE pool.price - swept_call.current_price
        IN  ~pool.swept /\ pool.type = pool_type /\ distance >= sweep_extension_pips}

SweepsOf(sweep_type, pool_price) ==
    {k \in DOMAIN swept_call.sweeps :
        /\ swept_call.sweeps[k].type = sweep_type
        /\ swept_call.sweeps[k].pool_price = pool_price
        /\ swept_call.sweeps[k].extension_pips
               = Abs(swept_call.current_price - pool_price)}

\* C10: detect_liquidity_sweeps returns exactly one BUY_SIDE sweep, with
\* extension_pips the distance, for each un-swept HIGH pool the price is
\* above by at least sweep_extension_pips, one SELL_SIDE sweep for each such
\* LOW pool below, and nothing else (nothing for swept pools).
C10_OneSweepPerSweptThroughPool ==
    swept_call.called =>
        /\ swept_call.outcome = "returned"
        /\ \A p \in PoolPrices :
              /\ Cardinality(SweepsOf("BUY_SIDE", p)) =
                     Cardinality({i \in SweptThrough("HIGH") :
                                      swept_call.pools[i].price = p})
              /\ Cardinality(SweepsOf("SELL_SIDE", p)) =
                     Cardinality({i \in SweptThrough("LOW") :
                                      swept_call.pools[i].price = p})
        /\ Len(swept_call.sweeps) =
               Cardinality(SweptThrough("HIGH")) + Cardinality(SweptThrough("LOW"))

\* C12: once a LiquidityPool has been marked swept none of its fields change:
\* later add_touch or mark_swept calls leave touches, last_touch, sweep_time
\* and sweep_price as they were.
C12_SweptPoolImmutable ==
    [][\A i \in DOMAIN pools : pools[i].swept => pools'[i] = pools[i]]_vars

-----------------------------------------------------------------------------
(***************************************************************************)
(* SMCConfig.validate (config/smc.py)                                      *)
(* Weights and the threshold are in hundredths: 25.0 is 2500.              *)
(***************************************************************************)
SMCConfigs ==
    [confluence_threshold : {5000, 8000, 10000},
     fvg_weight : {2400, 2495, 2500, 2505, 2600},
     ob_weight : {3000},
     liquidity_weight : {2500},
     structure_weight : {2000},
     h4_weight : {3900, 3995, 4000, 4005, 4100},
     h1_weight : {3500},
     m15_weight : {2500},
     min_candles_required : {50, 200},
     min_timeframes_aligned : {1, 2, 3}]

DefaultSMCConfig ==
    [confluence_threshold |-> 8000, fvg_weight |-> 2500, ob_weight |-> 3000,
     liquidity_weight |-> 2500, structure_weight |-> 2000, h4_weight |-> 4000,
     h1_weight |-> 3500, m15_weight |-> 2500, min_candles_required |-> 200,
     min_timeframes_aligned |-> 2]

NotValidated == [called |-> FALSE, outcome |-> "none"]

total_weight(cfg) ==
    cfg.fvg_weight + cfg.ob_weight + cfg.liquidity_weight + cfg.structure_weight

tf_total_weight(cfg) == cfg.h4_weight + cfg.h1_weight + cfg.m15_weight

\* the errors validate collects from its own checks, before it turns to the
\* component configurations
SMCConfigErrors(cfg) ==
    {e \in {"threshold", "weights", "tf_weights", "min_candles", "min_aligned"} :
        \/ e = "threshold"
             /\ ~(5000 <= cfg.confluence_threshold /\ cfg.confluence_threshold <= 10000)
        \/ e = "weights" /\ Abs(total_weight(cfg) - 10000) > 10
        \/ e = "tf_weights" /\ Abs(tf_total_weight(cfg) - 10000) > 10
        \/ e = "min_candles" /\ cfg.min_candles_required < 50
        \/ e = "min_aligned"
             /\ (cfg.min_timeframes_aligned < 1 \/ cfg.min_timeframes_aligned > 3)}

\* validate: the own checks, then self.fvg.validate() and its three siblings,
\* then ValueError if anything was collected, else True
SMCConfigValidate(cfg) ==
    IF InheritedValidate # "returned" THEN InheritedValidate
    ELSE IF SMCConfigErrors(cfg) # {} THEN "ValueError"
    ELSE "True"

Validate ==
    /\ ~smc_validated.called
    /\ smc_validated' = [called |-> TRUE, outcome |-> SMCConfigValidate(smc_config)]
    /\ UNCHANGED <<smc_config, others_smc>>

\* C14: SMCConfig.validate fails when the four category weights sum to 99 or to
\* 101 and succeeds (returns True) when they sum to within 0.1 of 100, and the
\* same for the three timeframe weights.
C14_WeightSumsValidated ==
    smc_validated.called =>
        LET cfg == smc_config
            off(total) == Abs(total - 10000) = 100
            near(total) == Abs(total - 10000) <= 10
        IN  /\ (off(total_weight(cfg)) \/ off(tf_total_weight(cfg)))
                  => smc_validated.outcome # "True"
            /\ (near(total_weight(cfg)) /\ near(tf_total_weight(cfg)))
                  => smc_validated.outcome = "True"

-----------------------------------------------------------------------------
(***************************************************************************)
(* SignalGenerator.validate_signal (signal_generator.py)                   *)
(* Lot sizes are in hundredths of a lot.                                   *)
(***************************************************************************)
max_lot_size == 100         \* settings.trading.max_lot_size (default 1.0)

\* the attributes validate_signal reads from the signal: risk_reward_ratio (a
\* rational), position_size and is_expired
CandidateSignals ==
    [risk_reward_ratio : {<<1, 1>>, <<7, 5>>, <<3, 2>>, <<19, 10>>, <<2, 1>>, <<3, 1>>},
     position_size : {10, 100, 150},
     is_expired : BOOLEAN]

NoCandidate == [risk_reward_ratio |-> RZero, position_size |-> 0, is_expired |-> FALSE]

NotValidatedSignal ==
    [called |-> FALSE, outcome |-> "none",
     result |-> [is_valid |-> TRUE, warnings |-> <<>>, errors |-> <<>>]]

\* the comparison of validate_signal with <= for <
ValidateSignalResultLe(signal, cfg) ==
    LET below == RLe(signal.risk_reward_ratio, Rat(cfg.min_risk_reward, 10))
    IN  [is_valid |-> ~below,
         warnings |-> (IF signal.position_size > max_lot_size
                       THEN <<"position_size">> ELSE <<>>)
                      \o (IF signal.is_expired THEN <<"expired">> ELSE <<>>),
         errors |-> IF below THEN <<"risk_reward">> ELSE <<>>]

\* validate_signal(signal): the validation dict it returns
ValidateSignalResult(signal, cfg) ==
    LET below == RLt(signal.risk_reward_ratio, Rat(cfg.min_risk_reward, 10))
    IN  [is_valid |-> ~below,
         warnings |-> (IF signal.position_size > max_lot_size
                       THEN <<"position_size">> ELSE <<>>)
                      \o (IF signal.is_expired THEN <<"expired">> ELSE <<>>),
         errors |-> IF below THEN <<"risk_reward">> ELSE <<>>]

ValidateSignal ==
    /\ ~validation.called
    /\ validation' = [called |-> TRUE, outcome |-> "returned",
                      result |-> ValidateSignalResult(candidate, settings)]
    /\ UNCHANGED <<candidate, others_validation>>

BelowMinRiskReward ==
    RLt(candidate.risk_reward_ratio, Rat(settings.min_risk_reward, 10))

-----------------------------------------------------------------------------
(***************************************************************************)
(* Candle construction (models/candle.py)                                  *)
(***************************************************************************)
MaxCandlePrice == 4

CandleArgs == [open : 1..MaxCandlePrice, high : 1..MaxCandlePrice,
               low : 1..MaxCandlePrice, close : 1..MaxCandlePrice]

NoCandleArgs == [open |-> 1, high |-> 1, low |-> 1, close |-> 1]

NoCandle == [open |-> 0, high |-> 0, low |-> 0, close |-> 0]

NotConstructed == [called |-> FALSE, outcome |-> "none", candle |-> NoCandle]

\* __post_init__ without the check of the close
PostInitOpenOnly(args) ==
    IF args.high < args.low THEN "ValueError"
    ELSE IF ~(args.low <= args.open /\ args.open <= args.high) THEN "ValueError"
    ELSE "constructed"

\* Candle.__post_init__: the three checks, in order
PostInit(args) ==
    IF args.high < args.low THEN "ValueError"
    ELSE IF ~(args.low <= args.open /\ args.open <= args.high) THEN "ValueError"
    ELSE IF ~(args.low <= args.close /\ args.close <= args.high) THEN "ValueError"
    ELSE "constructed"

\* Candle(timestamp, open, high, low, close): the dataclass stores the fields
\* as given, then __post_init__ checks them
ConstructCandle ==
    /\ ~constructed.called
    /\ constructed' =
           [called |-> TRUE, outcome |-> PostInit(ohlc),
            candle |-> IF PostInit(ohlc) = "constructed" THEN ohlc ELSE NoCandle]
    /\ UNCHANGED <<ohlc, others_candle>>

WithinRange(args) ==
    /\ args.low <= args.open /\ args.open <= args.high
    /\ args.low <= args.close /\ args.close <= args.high

\* C17: constructing a Candle whose prices violate low <= open <= high or
\* low <= close <= high (high < low included) fails with a construction error
\* and yields no candle; prices within the range are stored as given.
C17_InvalidCandleRejected ==
    constructed.called =>
        /\ ~WithinRange(ohlc) =>
               (constructed.outcome = "ValueError" /\ constructed.candle = NoCandle)
        /\ WithinRange(ohlc) =>
               (constructed.outcome = "constructed" /\ constructed.candle = ohlc)

\* C17 witness: a close above the high was rejected
C17_Witness ==
    /\ constructed.called
    /\ ohlc = [open |-> 2, high |-> 3, low |-> 1, close |-> 4]
    /\ constructed.outcome = "ValueError"

-----------------------------------------------------------------------------
(***************************************************************************)
(* CircuitBreaker (core/error_recovery.py)                                 *)
(* call() is a coroutine: it checks the state, awaits the wrapped function *)
(* and then books the outcome, so several calls can be in flight.          *)
(***************************************************************************)
failure_threshold == 2      \* CircuitBreaker(failure_threshold=...)
recovery_timeout == 2       \* CircuitBreaker(recovery_timeout=...), seconds
MaxTime == 6                \* the clock stops here
MaxCalls == 5               \* calls begun in one behaviour
MaxInFlight == 2            \* calls awaiting their function at once

\* CircuitBreakerState()
NewCircuitBreakerState ==
    [state |-> "CLOSED", failure_count |-> 0, last_failure_time |-> 0,
     success_count |-> 0]

\* the recovery test of call() with >= for >
RecoveredAtTimeout(st, now) == now - st.last_failure_time >= recovery_timeout

\* time.time() - self.state.last_failure_time > self.recovery_timeout
Recovered(st, now) == now - st.last_failure_time > recovery_timeout

\* _on_success clearing failure_count whatever the state
OnSuccessResetsCount(st) ==
    LET counted == [st EXCEPT !.success_count = @ + 1, !.failure_count = 0]
    IN  IF st.state = "HALF_OPEN"
        THEN [counted EXCEPT !.state = "CLOSED"]
        ELSE counted

\* _on_success
OnSuccess(st) ==
    LET counted == [st EXCEPT !.success_count = @ + 1]
    IN  IF st.state = "HALF_OPEN"
        THEN [counted EXCEPT !.state = "CLOSED", !.failure_count = 0]
        ELSE counted

\* _on_failure opening the breaker from CLOSED only
OnFailureFromClosedOnly(st, now) ==
    LET counted == [st EXCEPT !.failure_count = @ + 1, !.last_failure_time = now]
    IN  IF counted.failure_count >= failure_threshold /\ st.state = "CLOSED"
        THEN [counted EXCEPT !.state = "OPEN"]
        ELSE counted

\* _on_failure
OnFailure(st, now) ==
    LET counted == [st EXCEPT !.failure_count = @ + 1, !.last_failure_time = now]
    IN  IF counted.failure_count >= failure_threshold
        THEN [counted EXCEPT !.state = "OPEN"]
        ELSE counted

\* call(), up to the await: an OPEN breaker either turns HALF_OPEN (recovered)
\* or raises Exception("Circuit breaker is OPEN"); otherwise the function is
\* invoked
CallBegin ==
    /\ cb_calls < MaxCalls
    /\ cb_calls' = cb_calls + 1
    /\ IF cb_state.state = "OPEN" /\ ~Recovered(cb_state, cb_now)
       THEN /\ cb_last' = "rejected"
            /\ UNCHANGED <<cb_state, cb_inflight>>
       ELSE /\ cb_inflight < MaxInFlight
            /\ cb_state' = IF cb_state.state = "OPEN"
                           THEN [cb_state EXCEPT !.state = "HALF_OPEN"]
                           ELSE cb_state
            /\ cb_inflight' = cb_inflight + 1
            /\ cb_last' = "invoked"
    /\ UNCHANGED <<cb_now, others_breaker>>

\* call(), after the await: the function returned (success), raised an
\* expected_exception (failure) or raised something else, which passes the
\* except clause untouched (other)
CallEnd(result) ==
    /\ cb_inflight > 0
    /\ cb_inflight' = cb_inflight - 1
    /\ cb_state' = CASE result = "success" -> OnSuccess(cb_state)
                     [] result = "failure" -> OnFailure(cb_state, cb_now)
                     [] OTHER -> cb_state
    /\ UNCHANGED <<cb_now, cb_calls, cb_last, others_breaker>>

\* a second passes
Tick ==
    /\ cb_now < MaxTime
    /\ cb_now' = cb_now + 1
    /\ UNCHANGED <<cb_state, cb_inflight, cb_calls, cb_last, others_breaker>>

\* C18: once failure_threshold failed calls have been counted, every call begun
\* no later than recovery_timeout seconds after the last failure is rejected
\* with "Circuit breaker is OPEN" and the wrapped function is not invoked.
C18_OpenBreakerRejects ==
    [][(/\ cb_calls' = cb_calls + 1
        /\ cb_state.failure_count >= failure_threshold
        /\ cb_now - cb_state.last_failure_time <= recovery_timeout)
          => (cb_last' = "rejected" /\ cb_inflight' = cb_inflight
                /\ cb_state' = cb_state)]_vars

\* C18 witness: after failure_threshold failures, a call was rejected with the
\* timeout not yet over
C18_Witness ==
    /\ cb_state.failure_count >= failure_threshold
    /\ cb_state.state = "OPEN"
    /\ cb_last = "rejected"
    /\ cb_now - cb_state.last_failure_time = recovery_timeout
    /\ cb_inflight = 0

\* a step in which _on_success ran, and one in which _on_failure ran
SuccessStep == cb_state'.success_count = cb_state.success_count + 1
FailureStep == cb_state'.failure_count = cb_state.failure_count + 1

\* C34: the breaker leaves OPEN only by moving to HALF_OPEN once
\* recovery_timeout has elapsed; from HALF_OPEN a successful call moves it to
\* CLOSED with failure_count reset to 0 and a failed call moves it back to
\* OPEN; it never goes from OPEN directly to CLOSED.
C34_BreakerTransitions ==
    [][/\ (cb_state.state = "OPEN" /\ cb_state'.state # "OPEN") =>
              (cb_state'.state = "HALF_OPEN" /\ Recovered(cb_state, cb_now))
       /\ (cb_state.state = "HALF_OPEN" /\ SuccessStep) =>
              (cb_state'.state = "CLOSED" /\ cb_state'.failure_count = 0)
       /\ (cb_state.state = "HALF_OPEN" /\ FailureStep) =>
              cb_state'.state = "OPEN"]_vars

\* C34 witness: the breaker is CLOSED again with failure_count 0 after a
\* failure at time 1 and one success
C34_Witness ==
    /\ cb_state.state = "CLOSED"
    /\ cb_state.failure_count = 0
    /\ cb_state.last_failure_time = 1
    /\ cb_state.success_count = 1
    /\ cb_inflight = 0

\* C38: a successful call while the breaker is CLOSED leaves failure_count
\* unchanged, so the breaker opens as soon as the failures counted since the
\* last recovery reach failure_threshold, also with successful calls between
\* the failures.
C38_SuccessKeepsFailureCount ==
    [][/\ (cb_state.state = "CLOSED" /\ SuccessStep) =>
              (cb_state'.failure_count = cb_state.failure_count
                 /\ cb_state'.state = "CLOSED")
       /\ (FailureStep /\ cb_state'.failure_count >= failure_threshold) =>
              cb_state'.state = "OPEN"]_vars

\* C38 witness: failure_threshold failures and one success, no call refused,
\* and the breaker OPEN
C38_Witness ==
    /\ cb_state.state = "OPEN"
    /\ cb_state.failure_count = failure_threshold
    /\ cb_state.success_count = 1
    /\ cb_calls = failure_threshold + 1
    /\ cb_inflight = 0
    /\ cb_last = "invoked"

-----------------------------------------------------------------------------
(***************************************************************************)
(* ResourceManager (core/synchronization.py), for one resource_id.         *)
(* acquire_resource and release_resource run under self._lock, one at a    *)
(* time.                                                                   *)
(***************************************************************************)
MaxLocks == 3               \* locks listed for the resource at once
MaxLockTime == 4            \* the clock stops here
lock_timeout == 2           \* acquire_resource(..., timeout=...), seconds

Owners == {"a", "b", "c"}
LockTypes == {"read", "write", "exclusive"}

ResourceLock(lock_type, acquired_at, owner) ==
    [lock_type |-> lock_type, acquired_at |-> acquired_at, owner |-> owner]

NoCall == [op |-> "none", owner |-> "none", lock_type |-> "none", result |-> FALSE]

\* _locks_conflict
LocksConflict(existing_type, new_type) ==
    \/ existing_type = "exclusive" \/ new_type = "exclusive"
    \/ existing_type = "write" /\ new_type = "write"

\* list.remove(x): drops the first element equal to x
ListRemove(list, x) ==
    LET k == CHOOSE i \in 1..Len(list) :
                 list[i] = x /\ \A j \in 1..(i - 1) : list[j] # x
    IN  [i \in 1..(Len(list) - 1) |-> IF i < k THEN list[i] ELSE list[i + 1]]

\* the for loop of acquire_resource from position i on: an expired conflicting
\* lock is removed from the list being iterated (the iterator then moves on to
\* position i + 1 of the shortened list), an unexpired one ends the call with
\* False
RECURSIVE ScanLocks(_, _, _, _)
ScanLocks(locks, i, new_type, current_time) ==
    IF i > Len(locks) THEN [locks |-> locks, granted |-> TRUE]
    ELSE IF LocksConflict(locks[i].lock_type, new_type)
    THEN IF current_time - locks[i].acquired_at > lock_timeout
         THEN ScanLocks(ListRemove(locks, locks[i]), i + 1, new_type, current_time)
         ELSE [locks |-> locks, granted |-> FALSE]
    ELSE ScanLocks(locks, i + 1, new_type, current_time)

\* acquire_resource(resource_id, lock_type, owner)
AcquireResource(lock_type, owner) ==
    LET scan == ScanLocks(rm_locks, 1, lock_type, rm_now)
    IN  /\ Len(rm_locks) < MaxLocks
        /\ rm_locks' = IF scan.granted
                       THEN Append(scan.locks, ResourceLock(lock_type, rm_now, owner))
                       ELSE scan.locks
        /\ rm_last' = [op |-> "acquire", owner |-> owner, lock_type |-> lock_type,
                       result |-> scan.granted]
        /\ UNCHANGED <<rm_now, others_locks>>

\* release_resource(resource_id, owner): the first lock of the owner goes;
\* the record of the call notes which type of lock went
ReleaseResource(owner) ==
    LET mine == {i \in 1..Len(rm_locks) : rm_locks[i].owner = owner}
        first == CHOOSE i \in mine : \A j \in mine : i <= j
    IN  /\ rm_locks' = IF mine = {} THEN rm_locks
                       ELSE ListRemove(rm_locks, rm_locks[first])
        /\ rm_last' = [op |-> "release", owner |-> owner,
                       lock_type |-> IF mine = {} THEN "none"
                                     ELSE rm_locks[first].lock_type,
                       result |-> mine # {}]
        /\ UNCHANGED <<rm_now, others_locks>>

\* a second passes
LockTick ==
    /\ rm_now < MaxLockTime
    /\ rm_now' = rm_now + 1
    /\ UNCHANGED <<rm_locks, rm_last, others_locks>>

HoldsWrite(owner) ==
    \E i \in 1..Len(rm_locks) :
        rm_locks[i].owner = owner /\ rm_locks[i].lock_type = "write"

\* C19: while an owner holds an unreleased write lock on the resource,
\* acquire_resource for a write or exclusive lock by any other owner returns
\* False; and once the holder's release_resource has removed the write lock
\* (the resource being free of locks then), the next acquire_resource returns
\* True.
C19_WriteLockExcludesOthers ==
    [][/\ (/\ rm_last'.op = "acquire" /\ rm_last' # rm_last
           /\ rm_last'.lock_type \in {"write", "exclusive"}
           /\ \E holder \in Owners \ {rm_last'.owner} : HoldsWrite(holder))
             => rm_last'.result = FALSE
       /\ (/\ rm_last.op = "release" /\ rm_last.result /\ rm_last.lock_type = "write"
           /\ rm_locks = <<>>
           /\ rm_last'.op = "acquire")
             => rm_last'.result = TRUE]_vars

-----------------------------------------------------------------------------
(***************************************************************************)
(* TradeManager.open_trade (trading/trade_manager.py)                      *)
(* The manager keeps no list of trades: self.active_trades is the          *)
(* ResourceManager trade_locks, the trades themselves live in the          *)
(* repository.                                                             *)
(***************************************************************************)
max_concurrent_trades == 3  \* settings.trading.max_concurrent_trades (1..10)

SignalIds == {"s1", "s2", "s3"}

NoOpenTrade ==
    [called |-> FALSE, signal_id |-> "none", open_before |-> 0, active_count |-> 0,
     can_open |-> FALSE, result |-> "none", created |-> FALSE]

\* the fields of the Trade dataclass without a default
RequiredTradeFields ==
    {"direction", "position_size", "profit_loss", "profit_loss_pips",
     "profit_loss_percentage"}

\* the keyword arguments open_trade hands to Trade(...)
OpenTradeArguments ==
    {"signal_id", "instrument", "direction", "entry_time", "entry_price",
     "stop_loss", "take_profit_1", "take_profit_2", "position_size", "status"}

\* Trade(...) as open_trade calls it: TypeError unless every required field is
\* given
TradeConstructs == RequiredTradeFields \subseteq OpenTradeArguments

\* _can_open_trade: counts the locked resources named trade_*, then asks
\* can_trade_now(current_hour)
CanOpenTrade(locked, tradable) ==
    IF Cardinality(locked) >= max_concurrent_trades THEN FALSE ELSE tradable

\* open_trade(signal): under the semaphore, _can_open_trade; the exclusive lock
\* on trade_<signal_id> (free: no one else locks signal ids); Trade(...), which
\* raises before create_trade is reached; the lock released in the finally;
\* the exception caught and None returned.  Nothing in it suspends between the
\* check and the release.
OpenTrade(signal_id, tradable) ==
    LET can_open == CanOpenTrade(tm_locked, tradable)
        created == can_open /\ TradeConstructs
    IN  /\ tm_trades' = IF created THEN tm_trades + 1 ELSE tm_trades
        /\ tm_last' = [called |-> TRUE, signal_id |-> signal_id,
                       open_before |-> tm_trades,
                       active_count |-> Cardinality(tm_locked),
                       can_open |-> can_open,
                       \* signal.update_status(SignalStatus.FILLED): the name
                       \* SignalStatus is not imported, so a created trade is
                       \* not returned either
                       result |-> "None", created |-> created]
        /\ UNCHANGED <<tm_locked, others_trades>>

\* _update_trade_price(trade_id, price), up to the repository call: the write
\* lock on trade_<trade_id> is taken unless it conflicts
PriceUpdateBegin(trade_id) ==
    /\ trade_id \in 1..tm_trades
    /\ trade_id \notin tm_locked
    /\ tm_locked' = tm_locked \cup {trade_id}
    /\ UNCHANGED <<tm_trades, tm_last, others_trades>>

\* _update_trade_price, the finally: the lock is released
PriceUpdateEnd(trade_id) ==
    /\ trade_id \in tm_locked
    /\ tm_locked' = tm_locked \ {trade_id}
    /\ UNCHANGED <<tm_trades, tm_last, others_trades>>

\* C20: the trades open at the same time never exceed max_concurrent_trades,
\* and an open_trade called with that many trades open finds _can_open_trade
\* False and returns None without creating a trade.
C20_TradeLimitEnforced ==
    /\ tm_trades <= max_concurrent_trades
    /\ (tm_last.called /\ tm_last.open_before >= max_concurrent_trades) =>
           (~tm_last.can_open /\ tm_last.result = "None" /\ ~tm_last.created)

-----------------------------------------------------------------------------
(***************************************************************************)
(* BoundedCache (core/memory_manager.py).  put and get run under           *)
(* self._lock, one at a time; _cache and _timestamps always hold the same  *)
(* keys, so an entry carries its timestamp.                                *)
(***************************************************************************)
maxsize == 2                \* BoundedCache(maxsize=...)
ttl_seconds == 2            \* BoundedCache(ttl_seconds=...)
MaxCacheTime == 3           \* the clock stops here

CacheKeys == {"key1", "key2", "key3"}
CacheValues == {"value1", "value2"}

NoCacheCall == [op |-> "none", key |-> "none", result |-> "none"]

KeysOf(cache) == {cache[i].key : i \in 1..Len(cache)}

\* _remove_item(key)
RemoveItem(cache, key) == SelectSeq(cache, LAMBDA e : e.key # key)

\* current_time - timestamp > self.ttl_seconds
Expired(e, current_time) == current_time - e.timestamp > ttl_seconds

\* _cleanup_expired(current_time)
CleanupExpired(cache, current_time) ==
    SelectSeq(cache, LAMBDA e : ~Expired(e, current_time))

\* the eviction loop of put: while len(self._cache) >= self.maxsize the
\* oldest entry goes
RECURSIVE Evict(_)
Evict(cache) == IF Len(cache) >= maxsize THEN Evict(Tail(cache)) ELSE cache

\* the history after key was used: the keys still cached, then key
Used(used, kept, key) ==
    Append(SelectSeq(used, LAMBDA k : k \in kept /\ k # key), key)

\* put(key, value): cleanup, eviction, then the item is stored (an existing
\* key keeps its place in the OrderedDict) and True returned
Put(key, value) ==
    LET room == Evict(CleanupExpired(bc_cache, bc_now))
        item == [key |-> key, value |-> value, timestamp |-> bc_now]
    IN  /\ bc_cache' = IF key \in KeysOf(room)
                       THEN [i \in 1..Len(room) |->
                                IF room[i].key = key THEN item ELSE room[i]]
                       ELSE Append(room, item)
        /\ bc_last' = [op |-> "put", key |-> key, result |-> "True"]
        /\ bc_used' = Used(bc_used, KeysOf(room), key)
        /\ UNCHANGED <<bc_now, others_cache>>

\* get(key): None for a missing or an expired key (which is removed);
\* otherwise the entry moves to the end and its value is returned
Get(key) ==
    LET found == SelectSeq(bc_cache, LAMBDA e : e.key = key)
    IN  /\ IF found = <<>>
           THEN /\ bc_cache' = bc_cache
                /\ bc_last' = [op |-> "get", key |-> key, result |-> "None"]
                /\ bc_used' = bc_used
           ELSE IF Expired(found[1], bc_now)
           THEN /\ bc_cache' = RemoveItem(bc_cache, key)
                /\ bc_last' = [op |-> "get", key |-> key, result |-> "None"]
                /\ bc_used' = SelectSeq(bc_used, LAMBDA k : k # key)
           ELSE /\ bc_cache' = Append(RemoveItem(bc_cache, key), found[1])
                /\ bc_last' = [op |-> "get", key |-> key, result |-> found[1].value]
                /\ bc_used' = Used(bc_used, KeysOf(bc_cache), key)
        /\ UNCHANGED <<bc_now, others_cache>>

\* a second passes
CacheTick ==
    /\ bc_now < MaxCacheTime
    /\ bc_now' = bc_now + 1
    /\ UNCHANGED <<bc_cache, bc_last, bc_used, others_cache>>

\* C21: a put of a new key into a cache that holds maxsize unexpired entries
\* returns False and stores nothing: every entry stays as it was and the size
\* stays maxsize.
C21_FullCacheRejectsPut ==
    [][(/\ bc_last'.op = "put"
        /\ <<bc_cache, bc_last>>' # <<bc_cache, bc_last>>
        /\ bc_last'.key \notin KeysOf(bc_cache)
        /\ Len(bc_cache) = maxsize
        /\ \A i \in 1..Len(bc_cache) : ~Expired(bc_cache[i], bc_now))
          => (bc_last'.result = "False" /\ bc_cache' = bc_cache)]_vars

\* C35: when put has to evict to make room, the entry it evicts is the least
\* recently used one (least recently read by get or written by put), and a
\* put that only overwrites an existing key evicts no other entry.
C35_PutEvictsLeastRecentlyUsed ==
    [][(bc_last'.op = "put" /\ bc_now' = bc_now) =>
          LET live == CleanupExpired(bc_cache, bc_now)
              evicted == KeysOf(live) \ KeysOf(bc_cache')
              live_used == SelectSeq(bc_used, LAMBDA k : k \in KeysOf(live))
          IN  IF bc_last'.key \in KeysOf(live)
              THEN evicted = {}
              ELSE \/ evicted = {}
                   \/ Len(live) >= maxsize /\ evicted = {Head(live_used)}]_vars

-----------------------------------------------------------------------------
(***************************************************************************)
(* RetryHandler.execute (core/error_recovery.py): a coroutine that awaits  *)
(* func, and between attempts asyncio.sleep(delay).  The delay only sets   *)
(* how long the sleep lasts.                                               *)
(***************************************************************************)
max_retries == 3            \* RetryHandler(max_retries=...)

\* what one invocation of func can do: return a value, raise an Exception, or
\* raise something that is not an Exception (asyncio.CancelledError)
FuncOutcomes ==
    [kind : {"returns"}, value : {"r1", "r2"}]
      \cup [kind : {"Exception"}, value : {"e1", "e2", "e3"}]
      \cup [kind : {"BaseException"}, value : {"cancelled"}]

NotDone == [kind |-> "none", value |-> "none"]

\* the except clause with the first exception raised in place of e
OnExceptionFirst(attempt, e, log) ==
    IF attempt = max_retries
    THEN [pc |-> "raised", done |-> [kind |-> "raised", value |-> log[1].value]]
    ELSE [pc |-> "sleeping", done |-> NotDone]

\* the except clause: on the last attempt raise e, otherwise sleep
OnException(attempt, e, log) ==
    IF attempt = max_retries
    THEN [pc |-> "raised", done |-> [kind |-> "raised", value |-> e.value]]
    ELSE [pc |-> "sleeping", done |-> NotDone]

\* execute(func) is called: the loop starts at attempt 0
Execute ==
    /\ rh_pc = "idle"
    /\ rh_pc' = "calling"
    /\ UNCHANGED <<rh_attempt, rh_log, rh_done, others_retry>>

\* one pass of the loop body: func is awaited
Attempt(outcome) ==
    /\ rh_pc = "calling"
    /\ rh_log' = Append(rh_log, outcome)
    /\ CASE outcome.kind = "returns" ->
              /\ rh_pc' = "returned"
              /\ rh_done' = [kind |-> "returned", value |-> outcome.value]
         [] outcome.kind = "Exception" ->
              LET next == OnException(rh_attempt, outcome, rh_log')
              IN  rh_pc' = next.pc /\ rh_done' = next.done
         [] OTHER ->
              /\ rh_pc' = "raised"
              /\ rh_done' = [kind |-> "raised", value |-> outcome.value]
    /\ UNCHANGED <<rh_attempt, others_retry>>

\* asyncio.sleep(delay) is over: the next value of range(max_retries + 1), or
\* past the loop, raise last_exception
Sleep ==
    /\ rh_pc = "sleeping"
    /\ IF rh_attempt + 1 \in 0..max_retries
       THEN rh_attempt' = rh_attempt + 1 /\ rh_pc' = "calling" /\ rh_done' = rh_done
       ELSE /\ rh_attempt' = rh_attempt
            /\ rh_pc' = "raised"
            /\ rh_done' = [kind |-> "raised", value |-> rh_log[Len(rh_log)].value]
    /\ UNCHANGED <<rh_log, others_retry>>

\* C22: execute invokes func at most max_retries + 1 times; it returns the
\* result of the first successful attempt and invokes nothing after it; and when
\* every attempt has failed it raises the exception of the last one.
C22_RetryBounded ==
    /\ Len(rh_log) <= max_retries + 1
    /\ \A i \in 1..Len(rh_log) :
           rh_log[i].kind = "returns" =>
               (i = Len(rh_log) /\ rh_pc = "returned"
                  /\ rh_done = [kind |-> "returned", value |-> rh_log[i].value])
    /\ rh_pc = "returned" => rh_log[Len(rh_log)].kind = "returns"
    /\ (Len(rh_log) = max_retries + 1 /\ rh_log[Len(rh_log)].kind # "returns")
           => rh_pc = "raised"
    /\ rh_pc = "raised" =>
           rh_done = [kind |-> "raised", value |-> rh_log[Len(rh_log)].value]

\* C22 witness: max_retries + 1 failing attempts, e1 first and e2 last, and e2
\* raised
C22_Witness ==
    /\ rh_pc = "raised"
    /\ Len(rh_log) = max_retries + 1
    /\ rh_log[1].value = "e1"
    /\ rh_done = [kind |-> "raised", value |-> "e2"]

-----------------------------------------------------------------------------
(***************************************************************************)
(* AsyncLockManager.acquire (core/synchronization.py): an async context    *)
(* manager around one asyncio.Lock.  A task is idle, waiting in            *)
(* wait_for(self._lock.acquire(), timeout) or inside the body.             *)
(***************************************************************************)
Tasks == {"t1", "t2", "t3", "t4"}

\* the finally clause of acquire: whoever runs it releases the lock if it is
\* locked at all
FinallyRelease ==
    /\ al_locked' = FALSE
    /\ al_owner' = IF al_locked THEN "None" ELSE al_owner

\* `async with manager.acquire(timeout)` is entered: asyncio.Lock.acquire
\* takes a free lock at once when no one is queued, otherwise the task queues
EnterAcquire(t) ==
    /\ al_pc[t] = "idle"
    /\ IF ~al_locked /\ al_waiters = <<>>
       THEN /\ al_locked' = TRUE
            /\ al_owner' = t
            /\ al_pc' = [al_pc EXCEPT ![t] = "inside"]
            /\ UNCHANGED al_waiters
       ELSE /\ al_waiters' = Append(al_waiters, t)
            /\ al_pc' = [al_pc EXCEPT ![t] = "waiting"]
            /\ UNCHANGED <<al_locked, al_owner>>
    /\ UNCHANGED others_alock

\* the lock is free and the first waiter is woken: it takes the lock and
\* enters the body
WakeWaiter(t) ==
    /\ al_waiters # <<>> /\ Head(al_waiters) = t
    /\ ~al_locked
    /\ al_locked' = TRUE
    /\ al_owner' = t
    /\ al_waiters' = Tail(al_waiters)
    /\ al_pc' = [al_pc EXCEPT ![t] = "inside"]
    /\ UNCHANGED others_alock

\* wait_for times out for a waiting task: TimeoutError is raised to the
\* caller, after the finally clause has run
AcquireTimeout(t) ==
    /\ al_pc[t] = "waiting"
    /\ al_waiters' = SelectSeq(al_waiters, LAMBDA w : w # t)
    /\ al_pc' = [al_pc EXCEPT ![t] = "idle"]
    /\ FinallyRelease
    /\ UNCHANGED others_alock

\* a task leaves the body (normally or by an exception): the finally clause
LeaveBody(t) ==
    /\ al_pc[t] = "inside"
    /\ al_pc' = [al_pc EXCEPT ![t] = "idle"]
    /\ FinallyRelease
    /\ UNCHANGED <<al_waiters, others_alock>>

Inside == {t \in Tasks : al_pc[t] = "inside"}

\* C23: at most one task at a time is inside the body of
\* `async with AsyncLockManager.acquire(...)` (a timed-out waiter does not
\* release the holder's lock, and a leaving task releases only its own hold).
C23_OneTaskInside == Cardinality(Inside) <= 1

-----------------------------------------------------------------------------
(***************************************************************************)
(* SemaphoreManager.acquire (core/synchronization.py): an async context    *)
(* manager around one asyncio.Semaphore.  self._lock is only ever held     *)
(* around the update of _current_count, never across an await, so taking   *)
(* it does not suspend.                                                    *)
(***************************************************************************)
max_concurrent == 2         \* SemaphoreManager(max_concurrent=...)

\* the finally clause of acquire: whoever runs it gives a permit back and
\* counts down, provided the count is positive
FinallyReleasePermit ==
    IF sm_count > 0
    THEN sm_value' = sm_value + 1 /\ sm_count' = sm_count - 1
    ELSE UNCHANGED <<sm_value, sm_count>>

\* `async with semaphore.acquire(timeout)` is entered: a permit is taken at
\* once when one is left and no one is queued, otherwise the task queues
EnterSemaphore(t) ==
    /\ sm_pc[t] = "idle"
    /\ IF sm_value > 0 /\ sm_waiters = <<>>
       THEN /\ sm_value' = sm_value - 1
            /\ sm_count' = sm_count + 1
            /\ sm_pc' = [sm_pc EXCEPT ![t] = "inside"]
            /\ UNCHANGED sm_waiters
       ELSE /\ sm_waiters' = Append(sm_waiters, t)
            /\ sm_pc' = [sm_pc EXCEPT ![t] = "waiting"]
            /\ UNCHANGED <<sm_value, sm_count>>
    /\ UNCHANGED others_semaphore

\* a permit is free and the first waiter is woken: it takes the permit, counts
\* up and enters the body
WakeSemaphoreWaiter(t) ==
    /\ sm_waiters # <<>> /\ Head(sm_waiters) = t
    /\ sm_value > 0
    /\ sm_value' = sm_value - 1
    /\ sm_count' = sm_count + 1
    /\ sm_waiters' = Tail(sm_waiters)
    /\ sm_pc' = [sm_pc EXCEPT ![t] = "inside"]
    /\ UNCHANGED others_semaphore

\* wait_for times out for a waiting task: TimeoutError is raised to the
\* caller, after the finally clause has run
SemaphoreTimeout(t) ==
    /\ sm_pc[t] = "waiting"
    /\ sm_waiters' = SelectSeq(sm_waiters, LAMBDA w : w # t)
    /\ sm_pc' = [sm_pc EXCEPT ![t] = "idle"]
    /\ FinallyReleasePermit
    /\ UNCHANGED others_semaphore

\* a task leaves the body (normally or by an exception): the finally clause
LeaveSemaphore(t) ==
    /\ sm_pc[t] = "inside"
    /\ sm_pc' = [sm_pc EXCEPT ![t] = "idle"]
    /\ FinallyReleasePermit
    /\ UNCHANGED <<sm_waiters, others_semaphore>>

InsideSemaphore == {t \in Tasks : sm_pc[t] = "inside"}

\* C24: the tasks inside the body of SemaphoreManager.acquire never number
\* more than max_concurrent, and _current_count always equals their number,
\* also when other acquire calls time out with every permit taken.
C24_PermitsBounded ==
    /\ Cardinality(InsideSemaphore) <= max_concurrent
    /\ sm_count = Cardinality(InsideSemaphore)

-----------------------------------------------------------------------------
(***************************************************************************)
(* generate_signal followed by validate_signal                             *)
(***************************************************************************)
\* what validate_signal reads from a signal generate_signal returned; the
\* position size and the expiry are whatever the signal carries
AsCandidate(sg, position_size, is_expired) ==
    [risk_reward_ratio |-> sg.risk_reward_ratio,
     position_size |-> position_size, is_expired |-> is_expired]

-----------------------------------------------------------------------------
(***************************************************************************)
(* TradeManager._update_trade_price and _check_trade_exit                  *)
(* (trading/trade_manager.py) on one resource trade_<id>.                  *)
(* self.trade_repo is whatever the manager was given: the TradeRepository  *)
(* of database/repositories.py has plain methods, whose result cannot be   *)
(* awaited (TypeError); an awaitable repository returns after some time.   *)
(***************************************************************************)
Updaters == {"u1", "u2", "u3"}    \* concurrent callers of _update_trade_price

\* release_resource(resource_id, owner) on a lock list: the first lock of the
\* owner goes, the list is left alone when there is none
ReleaseFirst(locks, owner) ==
    LET mine == {i \in 1..Len(locks) : locks[i].owner = owner}
    IN  IF mine = {} THEN locks
        ELSE ListRemove(locks, locks[CHOOSE i \in mine : \A j \in mine : i <= j])

\* acquire_resource(resource_id, lock_type, owner, timeout=2.0) on a lock list
AcquireOn(locks, lock_type, owner, current_time) ==
    LET scan == ScanLocks(locks, 1, lock_type, current_time)
    IN  [granted |-> scan.granted,
         locks |-> IF scan.granted
                   THEN Append(scan.locks, ResourceLock(lock_type, current_time, owner))
                   ELSE scan.locks]

\* _update_trade_price up to its first await: the write lock as
\* "price_updater"; without it the call returns
UpdateTradePrice(u) ==
    LET a == AcquireOn(te_locks, "write", "price_updater", te_now)
    IN  /\ te_pc[u] = "idle"
        /\ te_locks' = a.locks
        /\ te_pc' = [te_pc EXCEPT ![u] = IF a.granted THEN "updating" ELSE "idle"]
        /\ UNCHANGED <<te_now, others_exit>>

\* await self.trade_repo.update_trade_price(...) raises: the finally releases
\* "price_updater", the exception is logged
RepoUpdateRaises(u) ==
    /\ te_pc[u] = "updating"
    /\ te_locks' = ReleaseFirst(te_locks, "price_updater")
    /\ te_pc' = [te_pc EXCEPT ![u] = "idle"]
    /\ UNCHANGED <<te_now, others_exit>>

\* the awaited update returns and _check_trade_exit is invoked: the exclusive
\* lock as "exit_checker"; without it _check_trade_exit returns at once
CheckTradeExit(u) ==
    LET a == AcquireOn(te_locks, "exclusive", "exit_checker", te_now)
    IN  /\ te_pc[u] = "updating"
        /\ te_locks' = a.locks
        /\ te_pc' = [te_pc EXCEPT ![u] = IF a.granted THEN "evaluating" ELSE "checked"]
        /\ UNCHANGED <<te_now, others_exit>>

\* the body of _check_trade_exit under the exclusive lock: the trade is read,
\* stop loss, take profits and breakeven are looked at (a trade may be
\* closed); the finally releases "exit_checker"
EvaluateExit(u) ==
    /\ te_pc[u] = "evaluating"
    /\ te_locks' = ReleaseFirst(te_locks, "exit_checker")
    /\ te_pc' = [te_pc EXCEPT ![u] = "checked"]
    /\ UNCHANGED <<te_now, others_exit>>

\* _check_trade_exit has returned: the finally of _update_trade_price
\* releases "price_updater"
UpdateTradePriceEnd(u) ==
    /\ te_pc[u] = "checked"
    /\ te_locks' = ReleaseFirst(te_locks, "price_updater")
    /\ te_pc' = [te_pc EXCEPT ![u] = "idle"]
    /\ UNCHANGED <<te_now, others_exit>>

\* a second passes
ExitTick ==
    /\ te_now < MaxLockTime
    /\ te_now' = te_now + 1
    /\ UNCHANGED <<te_locks, te_pc, others_exit>>

-----------------------------------------------------------------------------
(***************************************************************************)
(* FairValueGap.is_filled, mark_filled and                                 *)
(* FairValueGapDetector.get_active_fvgs (analysis/fvg_detector.py).        *)
(* Prices are in pips (0.0001), strengths in tenths, times in minutes.     *)
(***************************************************************************)
MaxGaps == 2                \* length of the list handed to get_active_fvgs
MaxAgeTicks == 3            \* the clock stops after this many ClockSteps
ClockStep == 120            \* minutes that pass in one tick
max_age_minutes == 240      \* get_active_fvgs(..., max_age_minutes=240)
tolerance_pips == 2         \* is_filled(..., tolerance_pips=Decimal("2"))
ignore_small_fvgs == TRUE   \* settings.smc.fvg.ignore_small_fvgs (default)

GapBounds == {<<10, 20>>, <<10, 14>>}       \* <<bottom_price, top_price>>
ActivePrices == {11, 15, 19}                \* current_price

\* the gap lists: detected gaps, not filled, stamped at minute 0
GapLists ==
    UNION {{[i \in 1..n |-> [id |-> i, type |-> ty[i], bottom_price |-> b[i][1],
                             top_price |-> b[i][2], strength |-> s[i],
                             timestamp |-> 0, filled |-> FALSE]] :
              ty \in [1..n -> {"BULLISH", "BEARISH"}],
              b \in [1..n -> GapBounds],
              s \in [1..n -> {3, 7}]} : n \in 0..MaxGaps}

\* FairValueGap.is_filled(current_price)
IsFilled(fvg, current_price) ==
    IF fvg.filled THEN TRUE
    ELSE IF fvg.type = "BULLISH"
    THEN current_price <= fvg.bottom_price + tolerance_pips
    ELSE current_price >= fvg.top_price - tolerance_pips

\* active_fvgs.sort(key=strength, reverse=True): stable, strongest first
RECURSIVE SortByStrength(_)
SortByStrength(seq) ==
    IF Len(seq) <= 1 THEN seq
    ELSE LET h == Head(seq)
             rest == SortByStrength(Tail(seq))
             k == Cardinality({i \in 1..Len(rest) : rest[i].strength > h.strength})
         IN  SubSeq(rest, 1, k) \o <<h>> \o SubSeq(rest, k + 1, Len(rest))

\* the loop of get_active_fvgs: age, fill, size
IsActive(fvg, current_price, current_time) ==
    /\ ~(current_time - fvg.timestamp > max_age_minutes)
    /\ ~IsFilled(fvg, current_price)
    /\ ~(ignore_small_fvgs /\ GapSize(fvg.top_price, fvg.bottom_price) < min_size_pips)

\* get_active_fvgs(fvgs, current_price)
GetActiveFvgsResult(fvgs, current_price, current_time) ==
    SortByStrength(SelectSeq(fvgs, LAMBDA g : IsActive(g, current_price, current_time)))

\* a call of get_active_fvgs on the gap list; the gaps that were within the
\* age limit and found filled are noted
GetActiveFvgs(current_price) ==
    /\ af_active' = GetActiveFvgsResult(af_gaps, current_price, af_now)
    /\ af_excluded' = af_excluded \cup
           {af_gaps[i].id : i \in {j \in 1..Len(af_gaps) :
                /\ ~(af_now - af_gaps[j].timestamp > max_age_minutes)
                /\ IsFilled(af_gaps[j], current_price)}}
    /\ UNCHANGED <<af_gaps, af_now, others_active>>

\* fvg.mark_filled(fill_time, fill_price) on a gap of the list
MarkFilled(i) ==
    /\ i \in 1..Len(af_gaps)
    /\ ~af_gaps[i].filled
    /\ af_gaps' = [af_gaps EXCEPT ![i].filled = TRUE]
    /\ UNCHANGED <<af_now, af_excluded, af_active, others_active>>

\* time passes
ActiveTick ==
    /\ af_now < MaxAgeTicks * ClockStep
    /\ af_now' = af_now + ClockStep
    /\ UNCHANGED <<af_gaps, af_excluded, af_active, others_active>>

\* C29: a gap that get_active_fvgs has excluded as filled at some price is
\* never returned as active by a later get_active_fvgs call on the same gap
\* list, whatever the later price.
C29_FilledStaysExcluded ==
    [][\A k \in 1..Len(af_active') : af_active'[k].id \notin af_excluded]_vars

-----------------------------------------------------------------------------
(***************************************************************************)
(* MarketDataProcessor._update_candles_from_tick and                       *)
(* _update_timeframe_candle (analysis/market_data_processor.py).           *)
(* A RollingWindow holds references to Candle objects; a candle made by    *)
(* this code is known by its timestamp, which is what a window entry       *)
(* records here.  Time is in units of the M15 aggregation period; volumes  *)
(* are not followed.                                                       *)
(***************************************************************************)
WindowSize == 3             \* RollingWindow(size=200): deque(maxlen=size)
MaxTickTime == 6            \* latest tick timestamp
Bids == {1, 2}              \* tick.bid

\* the aggregation period handed to _update_timeframe_candle for each window
Period == [M15 |-> 1, H1 |-> 2, H4 |-> 4]

NoCurrentCandle == [timestamp |-> 0, open |-> 0, high |-> 0, low |-> 0, close |-> 0]

\* RollingWindow.add: deque.append with maxlen
WindowAdd(data, candle) == LastN(Append(data, candle.timestamp), WindowSize)

\* _update_timeframe_candle(window, tick, current_candle, period): the window
\* afterwards and the candle returned (NoCurrentCandle for None); updated is
\* the current candle after the in-place update
UpdateTimeframeCandle(data, ts, bid, current_candle, period) ==
    IF current_candle = NoCurrentCandle
    THEN LET candle == [timestamp |-> ts, open |-> bid, high |-> bid,
                        low |-> bid, close |-> bid]
         IN  [data |-> WindowAdd(data, candle), returned |-> candle,
              updated |-> candle]
    ELSE LET candle == [current_candle EXCEPT
                            !.high = Max2(current_candle.high, bid),
                            !.low = Min2(current_candle.low, bid),
                            !.close = bid]
         IN  IF ts >= candle.timestamp + period
             THEN [data |-> WindowAdd(data, candle),
                   returned |-> [timestamp |-> candle.timestamp + period,
                                 open |-> bid, high |-> bid, low |-> bid,
                                 close |-> bid],
                   updated |-> candle]
             ELSE [data |-> data, returned |-> NoCurrentCandle, updated |-> candle]

\* _update_candles_from_tick(tick) for a tick not older than the last one:
\* each window in turn; a returned candle becomes the current one
UpdateCandlesFromTick(ts, bid) ==
    /\ ts >= mw_last_tick
    /\ LET r == [tf \in Timeframes |->
                    UpdateTimeframeCandle(mw_windows[tf], ts, bid,
                                          mw_current[tf], Period[tf])]
       IN  /\ mw_windows' = [tf \in Timeframes |-> r[tf].data]
           /\ mw_current' = [tf \in Timeframes |->
                                IF r[tf].returned # NoCurrentCandle
                                THEN r[tf].returned ELSE r[tf].updated]
    /\ mw_last_tick' = ts
    /\ UNCHANGED others_window

\* C31: in every RollingWindow, after any sequence of ticks with
\* non-decreasing timestamps, the stored candles' timestamps are strictly
\* increasing: no candle is stored twice, no two share a timestamp.
C31_WindowTimestampsIncrease ==
    \A tf \in Timeframes : \A i \in 1..(Len(mw_windows[tf]) - 1) :
        mw_windows[tf][i] < mw_windows[tf][i + 1]

-----------------------------------------------------------------------------
(***************************************************************************)
(* OrderBlockDetector._determine_block_type                                *)
(* (analysis/order_block_detector.py).  A candle enters by its bias:       *)
(* is_bullish is close > open, is_bearish is close < open, and a candle    *)
(* with close = open (doji) is neither.                                    *)
(***************************************************************************)
MaxBlockCandles == 5        \* candles in the sequence handed to the detector

Biases == {"bullish", "bearish", "doji"}

BlockCandleLists == UNION {[1..n -> Biases] : n \in 1..MaxBlockCandles}

CountOf(candles, bias) ==
    Cardinality({i \in 1..Len(candles) : candles[i] = bias})

\* candles[index+1:index+4] if index+4 < len(candles) else []
FutureCandles(candles, index) ==
    IF index + 4 < Len(candles) THEN SubSeq(candles, index + 2, index + 4)
    ELSE <<>>

\* _determine_block_type(candle, candles, index), candle being candles[index]
DetermineBlockType(candles, index) ==
    LET candle == candles[index + 1]
        future_candles == FutureCandles(candles, index)
        bullish_count == CountOf(future_candles, "bullish")
        bearish_count == Len(future_candles) - bullish_count
    IN  IF future_candles = <<>> THEN "BULLISH"
        ELSE IF 2 * bullish_count > 3 * bearish_count THEN "BULLISH"
        ELSE IF 2 * bearish_count > 3 * bullish_count THEN "BEARISH"
        ELSE IF candle = "bullish" THEN "BULLISH" ELSE "BEARISH"

\* the detector classifies the candidate
CallDetermineBlockType ==
    /\ bt_result = "none"
    /\ bt_result' = DetermineBlockType(bt_candles, bt_index)
    /\ UNCHANGED <<bt_candles, bt_index, others_blocktype>>

\* the candles after the candidate, three at most
Following(candles, index) ==
    SubSeq(candles, index + 2, Min2(index + 4, Len(candles)))

\* C39: the candidate is labelled BULLISH when bullish candles among the
\* following 3 candles outnumber bearish ones by more than 1.5 times, BEARISH
\* in the mirror case, and otherwise, also when fewer than 3 following
\* candles are available, by the candidate's own bias (a doji has none, and
\* either label is taken for it).
C39_BlockTypeFollowsContext ==
    bt_result # "none" =>
        LET following == Following(bt_candles, bt_index)
            bullish == CountOf(following, "bullish")
            bearish == CountOf(following, "bearish")
            candle == bt_candles[bt_index + 1]
        IN  IF Len(following) = 3 /\ 2 * bullish > 3 * bearish
            THEN bt_result = "BULLISH"
            ELSE IF Len(following) = 3 /\ 2 * bearish > 3 * bullish
            THEN bt_result = "BEARISH"
            ELSE /\ candle = "bullish" => bt_result = "BULLISH"
                 /\ candle = "bearish" => bt_result = "BEARISH"

-----------------------------------------------------------------------------
(***************************************************************************)
(* Trade (models/trade.py): one trade and the methods that update it.      *)
(* Prices are levels, sizes are lots; a price or time of 0 stands for      *)
(* None.  updated_at, which no method reads, is not carried.               *)
(***************************************************************************)
TradePrices == {1, 2, 3}
ExitPrices == {1, 3}
CloseSizes == {1, 3}
ExitTimes == {1, 2}
ExitReasons == {"TP1_HIT", "SL_HIT"}
PartialReasons == {"TP1_HIT"}
pip_value == 10             \* Decimal('10'), $ per pip per lot

NoTradeCall == [op |-> "none", raised |-> "none"]

\* Trade(direction=..., position_size=..., entry_price=..., stop_loss=...,
\* take_profit_1=..., status=TradeStatus.OPEN) with zero profit figures
NewTrade(direction, position_size) ==
    [direction |-> direction, position_size |-> position_size,
     profit_loss |-> 0, profit_loss_pips |-> 0, profit_loss_percentage |-> RZero,
     entry_price |-> 2,
     stop_loss |-> IF direction = "BUY" THEN 1 ELSE 3,
     exit_time |-> 0, exit_price |-> 0, exit_reason |-> "None",
     highest_price |-> 0, lowest_price |-> 0, current_price |-> 0,
     status |-> "OPEN", partial_closes |-> <<>>,
     tp1_hit |-> FALSE, tp2_hit |-> FALSE, sl_hit |-> FALSE,
     breakeven_moved |-> FALSE]

RECURSIVE SumField(_, _)
SumField(partial_closes, name) ==
    IF partial_closes = <<>> THEN 0
    ELSE partial_closes[1][name] + SumField(Tail(partial_closes), name)

\* remaining_position_size
RemainingPositionSize(t) ==
    Max2(0, t.position_size - SumField(t.partial_closes, "size"))

\* price - entry_price for a BUY, entry_price - price for a SELL
PipsAt(t, price) ==
    IF t.direction = "BUY" THEN price - t.entry_price ELSE t.entry_price - price

\* _calculate_current_pl
CalculateCurrentPl(t) ==
    IF t.entry_price = 0 \/ t.current_price = 0 THEN t
    ELSE LET pips == PipsAt(t, t.current_price)
             profit == pips * RemainingPositionSize(t) * pip_value
         IN  [t EXCEPT !.profit_loss_pips = pips,
                       !.profit_loss = profit,
                       !.profit_loss_percentage =
                            IF t.position_size > 0
                            THEN Rat(profit * 100, t.position_size * 1000)
                            ELSE @]

\* update_price(current_price)
UpdatePrice(current_price) ==
    /\ tl_trade' = CalculateCurrentPl(
          [tl_trade EXCEPT
              !.current_price = current_price,
              !.highest_price = IF @ = 0 \/ current_price > @
                                THEN current_price ELSE @,
              !.lowest_price = IF @ = 0 \/ current_price < @
                               THEN current_price ELSE @])
    /\ tl_call' = [op |-> "update_price", raised |-> "none"]
    /\ UNCHANGED others_lifecycle

\* partial_close(size, price, reason)
PartialCloseTrade(size, price, reason) ==
    /\ IF size > RemainingPositionSize(tl_trade)
       THEN /\ tl_trade' = tl_trade
            /\ tl_call' = [op |-> "partial_close", raised |-> "ValueError"]
       ELSE /\ tl_trade' =
                 [tl_trade EXCEPT
                     !.partial_closes =
                         Append(@, [price |-> price, size |-> size,
                                    profit |-> PipsAt(tl_trade, price) * size * pip_value,
                                    reason |-> reason]),
                     !.tp1_hit = @ \/ reason = "TP1_HIT",
                     !.tp2_hit = @ \/ reason = "TP2_HIT"]
            /\ tl_call' = [op |-> "partial_close", raised |-> "none"]
    /\ UNCHANGED others_lifecycle

\* close_trade(exit_price, exit_time, reason)
CloseTrade(exit_price, exit_time, reason) ==
    /\ LET pips == PipsAt(tl_trade, exit_price)
           partial_profit == SumField(tl_trade.partial_closes, "profit")
           remaining_size == RemainingPositionSize(tl_trade)
       IN  tl_trade' =
             [tl_trade EXCEPT
                 !.exit_price = exit_price,
                 !.exit_time = exit_time,
                 !.exit_reason = reason,
                 !.status = "CLOSED",
                 !.profit_loss_pips = pips,
                 !.profit_loss = IF remaining_size > 0
                                 THEN partial_profit + pips * remaining_size * pip_value
                                 ELSE partial_profit,
                 !.sl_hit = @ \/ reason = "SL_HIT",
                 !.tp1_hit = @ \/ reason = "TP1_HIT",
                 !.tp2_hit = @ \/ reason = "TP2_HIT"]
    /\ tl_call' = [op |-> "close_trade", raised |-> "none"]
    /\ UNCHANGED others_lifecycle

\* move_stop_to_breakeven()
MoveStopToBreakeven ==
    /\ tl_trade' = IF tl_trade.entry_price # 0 /\ ~tl_trade.breakeven_moved
                   THEN [tl_trade EXCEPT !.stop_loss = tl_trade.entry_price,
                                         !.breakeven_moved = TRUE]
                   ELSE tl_trade
    /\ tl_call' = [op |-> "move_stop_to_breakeven", raised |-> "none"]
    /\ UNCHANGED others_lifecycle

\* C40: once a Trade has status CLOSED it stays CLOSED, and its exit_price,
\* exit_time, exit_reason and profit_loss never change under any later
\* update_price, partial_close, close_trade or move_stop_to_breakeven call.
C40_ClosedTradeIsFinal ==
    [][(/\ tl_trade.status = "CLOSED"
        /\ tl_call'.op \in {"update_price", "partial_close", "close_trade",
                            "move_stop_to_breakeven"}) =>
          /\ tl_trade'.status = "CLOSED"
          /\ tl_trade'.exit_price = tl_trade.exit_price
          /\ tl_trade'.exit_time = tl_trade.exit_time
          /\ tl_trade'.exit_reason = tl_trade.exit_reason
          /\ tl_trade'.profit_loss = tl_trade.profit_loss]_vars

-----------------------------------------------------------------------------
(***************************************************************************)
(* Specifications: one per component                                       *)
(***************************************************************************)
\* The state after construction: a MarketStructure before any candle
\* (MarketStructure.__init__), a ConfluenceAnalysis without factors
\* (ConfluenceAnalysis.__init__, TimeframeAnalysis.__init__) and a
\* SignalGenerator (SignalGenerator.__init__).  The specification of one
\* component draws that component's inputs and holds the others idle.
Init(component) ==
    /\ swing_highs \in (IF component = "seeded" THEN SeededLists
                        ELSE IF component = "breaks" THEN BreakSeedLists
                        ELSE IF component = "pruning" THEN FullSeedLists ELSE {<<>>})
    /\ swing_lows \in (IF component = "seeded" THEN SeededLists
                       ELSE IF component = "breaks" THEN BreakSeedLists
                       ELSE IF component = "pruning" THEN FullSeedLists ELSE {<<>>})
    /\ structure_breaks \in (IF component = "breaks" THEN SeededBreakLists ELSE {<<>>})
    /\ current_state = "RANGING"
    /\ last_update = (IF component \in {"seeded", "breaks", "pruning"}
                      THEN MaxCandles - SeededUpdates ELSE 0)
    /\ sb_call = NoConfirmCall
    /\ feed = [high |-> 0, low |-> 0, close |-> 0, asc |-> TRUE, desc |-> TRUE, raised |-> "none"]
    /\ analyses = [tf \in Timeframes |-> NewTimeframeAnalysis]
    /\ ca_overall_score = RZero
    /\ ca_confidence = RZero
    /\ settings \in (IF component \in {"signal", "validation"} THEN SettingsDomain
                                                                ELSE {DefaultSettings})
    /\ generated \in (IF component = "signal" THEN SignalCalls ELSE {NoSignalCall})
    /\ \E n \in 0..(IF component = "fvg" THEN MaxFvgCandles ELSE 0) :
           fvg_candles \in [1..n -> FvgCandles]
    /\ detected = NoDetection
    /\ pools \in (IF component = "liquidity" THEN SeqsUpTo(LiquidityPools, MaxPools)
                                             ELSE {<<>>})
    /\ swept_call \in (IF component = "liquidity" THEN SweepCalls ELSE {NoSweepCall})
    /\ smc_config \in (IF component = "smc" THEN SMCConfigs ELSE {DefaultSMCConfig})
    /\ smc_validated = NotValidated
    /\ candidate \in (IF component = "validation" THEN CandidateSignals
                                                   ELSE {NoCandidate})
    /\ validation = NotValidatedSignal
    /\ ohlc \in (IF component = "candle" THEN CandleArgs ELSE {NoCandleArgs})
    /\ constructed = NotConstructed
    /\ cb_state = NewCircuitBreakerState
    /\ cb_now = 0
    /\ cb_inflight = 0
    /\ cb_calls = 0
    /\ cb_last = "none"
    /\ rm_locks = <<>>
    /\ rm_now = 0
    /\ rm_last = NoCall
    /\ tm_trades \in (IF component = "trades" THEN 0..max_concurrent_trades ELSE {0})
    /\ tm_locked = {}
    /\ tm_last = NoOpenTrade
    /\ bc_cache = <<>>
    /\ bc_now = 0
    /\ bc_last = NoCacheCall
    /\ bc_used = <<>>
    /\ rh_pc = "idle"
    /\ rh_attempt = 0
    /\ rh_log = <<>>
    /\ rh_done = NotDone
    /\ al_locked = FALSE
    /\ al_waiters = <<>>
    /\ al_pc = [t \in Tasks |-> "idle"]
    /\ al_owner = "None"
    /\ sm_value = max_concurrent
    /\ sm_waiters = <<>>
    /\ sm_pc = [t \in Tasks |-> "idle"]
    /\ sm_count = 0
    /\ te_locks = <<>>
    /\ te_now = 0
    /\ te_pc = [u \in Updaters |-> "idle"]
    /\ af_gaps \in (IF component = "active" THEN GapLists ELSE {<<>>})
    /\ af_now = 0
    /\ af_excluded = {}
    /\ af_active = <<>>
    /\ mw_windows = [tf \in Timeframes |-> <<>>]
    /\ mw_current = [tf \in Timeframes |-> NoCurrentCandle]
    /\ mw_last_tick = 1
    /\ bt_candles \in (IF component = "blocktype" THEN BlockCandleLists ELSE {<<>>})
    /\ bt_index \in (IF component = "blocktype" THEN 0..(Len(bt_candles) - 1) ELSE {0})
    /\ bt_result = "none"
    /\ tl_trade \in (IF component = "lifecycle"
                     THEN {NewTrade(direction, 2) : direction \in {"BUY", "SELL"}}
                     ELSE {NewTrade("BUY", 2)})
    /\ tl_call = NoTradeCall

NextStructure == \E c \in StructCandles : UpdateWithCandle(c)

SpecStructure == Init("structure") /\ [][NextStructure]_vars

NextStructureSeeded == \E c \in SeededCandles : UpdateWithCandle(c)

SpecStructureSeeded == Init("seeded") /\ [][NextStructureSeeded]_vars

NextStructurePruning == \E c \in SeededCandles : UpdateWithCandle(c)

SpecStructurePruning == Init("pruning") /\ [][NextStructurePruning]_vars

NextConfluence ==
    \/ \E tf \in Timeframes, f \in ConfluenceFactors : AddFactor(tf, f)
    \/ CalculateOverallConfluence

SpecConfluence == Init("confluence") /\ [][NextConfluence]_vars

NextSignal == GenerateSignal

SpecSignal == Init("signal") /\ [][NextSignal]_vars

NextFVG == DetectFvgs

SpecFVG == Init("fvg") /\ [][NextFVG]_vars

NextLiquidity ==
    \/ \E i \in 1..MaxPools, timestamp \in PoolTimes : AddTouch(i, timestamp)
    \/ \E i \in 1..MaxPools, sweep_time \in PoolTimes, sweep_price \in SweepPrices :
           MarkSwept(i, sweep_time, sweep_price)
    \/ DetectLiquiditySweeps

SpecLiquidity == Init("liquidity") /\ [][NextLiquidity]_vars

NextSMCConfig == Validate

SpecSMCConfig == Init("smc") /\ [][NextSMCConfig]_vars

NextValidateSignal == ValidateSignal

SpecValidateSignal == Init("validation") /\ [][NextValidateSignal]_vars

NextCandle == ConstructCandle

SpecCandle == Init("candle") /\ [][NextCandle]_vars

NextBreaker ==
    \/ CallBegin
    \/ \E result \in {"success", "failure", "other"} : CallEnd(result)
    \/ Tick

SpecBreaker == Init("breaker") /\ [][NextBreaker]_vars

NextLocks ==
    \/ \E lock_type \in LockTypes, owner \in Owners : AcquireResource(lock_type, owner)
    \/ \E owner \in Owners : ReleaseResource(owner)
    \/ LockTick

SpecLocks == Init("locks") /\ [][NextLocks]_vars

NextTrades ==
    \/ \E signal_id \in SignalIds, tradable \in BOOLEAN : OpenTrade(signal_id, tradable)
    \/ \E trade_id \in 1..max_concurrent_trades : PriceUpdateBegin(trade_id)
    \/ \E trade_id \in 1..max_concurrent_trades : PriceUpdateEnd(trade_id)

SpecTrades == Init("trades") /\ [][NextTrades]_vars

NextCache ==
    \/ \E key \in CacheKeys, value \in CacheValues : Put(key, value)
    \/ \E key \in CacheKeys : Get(key)
    \/ CacheTick

SpecCache == Init("cache") /\ [][NextCache]_vars

NextRetry ==
    \/ Execute
    \/ \E outcome \in FuncOutcomes : Attempt(outcome)
    \/ Sleep

SpecRetry == Init("retry") /\ [][NextRetry]_vars

NextAsyncLock ==
    \/ \E t \in Tasks : EnterAcquire(t)
    \/ \E t \in Tasks : WakeWaiter(t)
    \/ \E t \in Tasks : AcquireTimeout(t)
    \/ \E t \in Tasks : LeaveBody(t)

SpecAsyncLock == Init("alock") /\ [][NextAsyncLock]_vars

NextSemaphore ==
    \/ \E t \in Tasks : EnterSemaphore(t)
    \/ \E t \in Tasks : WakeSemaphoreWaiter(t)
    \/ \E t \in Tasks : SemaphoreTimeout(t)
    \/ \E t \in Tasks : LeaveSemaphore(t)

SpecSemaphore == Init("semaphore") /\ [][NextSemaphore]_vars

NextTradeExit ==
    \/ \E u \in Updaters : UpdateTradePrice(u)
    \/ \E u \in Updaters : RepoUpdateRaises(u)
    \/ \E u \in Updaters : CheckTradeExit(u)
    \/ \E u \in Updaters : EvaluateExit(u)
    \/ \E u \in Updaters : UpdateTradePriceEnd(u)
    \/ ExitTick

SpecTradeExit == Init("exit") /\ [][NextTradeExit]_vars

NextActiveFvgs ==
    \/ \E current_price \in ActivePrices : GetActiveFvgs(current_price)
    \/ \E i \in 1..MaxGaps : MarkFilled(i)
    \/ ActiveTick

SpecActiveFvgs == Init("active") /\ [][NextActiveFvgs]_vars

NextWindows == \E ts \in 1..MaxTickTime, bid \in Bids : UpdateCandlesFromTick(ts, bid)

SpecWindows == Init("window") /\ [][NextWindows]_vars

NextStructureBreaks ==
    \/ \E c \in SeededCandles : UpdateWithCandle(c)
    \/ \E break_type \in BreakTypes, price \in ConfirmPrices :
           ConfirmStructureBreak(break_type, price)

SpecStructureBreaks == Init("breaks") /\ [][NextStructureBreaks]_vars

NextBlockType == CallDetermineBlockType

SpecBlockType == Init("blocktype") /\ [][NextBlockType]_vars

NextLifecycle ==
    \/ \E current_price \in TradePrices : UpdatePrice(current_price)
    \/ \E size \in CloseSizes, price \in ExitPrices, reason \in PartialReasons :
           PartialCloseTrade(size, price, reason)
    \/ \E exit_price \in ExitPrices, exit_time \in ExitTimes, reason \in ExitReasons :
           CloseTrade(exit_price, exit_time, reason)
    \/ MoveStopToBreakeven

SpecLifecycle == Init("lifecycle") /\ [][NextLifecycle]_vars

=============================================================================
